---- MODULE Spec2Model ----
(***************************************************************************)
(* Model of the rollout normalization pipeline of codex_transcripts        *)
(* (src/src/codex_transcripts/rollout.py): the record reader               *)
(* _iter_rollout_objects and the single pass of parse_rollout_file with    *)
(* its deduplication filter and ParseStats bookkeeping.                    *)
(***************************************************************************)
EXTENDS Integers, Sequences, FiniteSets, TLC

VARIABLES
    file,                 \* the session file handed to parse_rollout_file
    pc,                   \* "start", "loop", "returned" or "raised"
    objects,              \* the list returned by _iter_rollout_objects
    pos,                  \* index in objects of the next record of the for loop
    stats,                \* ParseStats
    records,              \* list of _ParsedLogline
    meta,                 \* SessionMeta or None
    saw_event_messages,   \* the dedup flag
    filtered,             \* the list computed by the dedup filter
    error,                \* exception that left parse_rollout_file, or "none"
    selected_paths,       \* the session files of one invocation, in order
    run,                  \* index in selected_paths of the file being parsed
    outcomes,             \* what the earlier calls of the invocation returned
    transcript_item_messages,  \* the (log_type, message_json, timestamp) items
    gpc,                  \* "idle", "build", "render", "returned" or "raised"
    idx,                  \* i, the index of the next item of the grouping loop
    groups,               \* the conversation groups closed so far
    current_prompt,       \* prompt of the open group, or None
    current_start,        \* index of the first item of the open group
    current_messages,     \* the items of the open group
    rendered_groups,      \* the group summaries built so far
    prompt_num,           \* number of groups with a prompt summarised so far
    warnings_html,        \* the drift notice of the viewer, None before it is built
    units,                \* the MessageUnit list handed to group_units_by_prompt
    upc,                  \* "idle", "loop" or "returned"
    unit_idx,             \* index in units of the next unit of the loop
    unit_groups,          \* groups of group_units_by_prompt
    unit_prompt,          \* current_prompt of group_units_by_prompt
    current_units,        \* the units of the open group
    url,                  \* the URL handed to import_rollout_url
    response,             \* what the server answers to the GET
    overwrite,            \* the overwrite flag
    archived,             \* the archived flag
    ipc,                  \* "idle", "start", "downloaded", "named", "returned", "raised"
    tmp_file,             \* the temporary download, None while it does not exist
    home_dirs,            \* the directories that exist under the Codex home
    home_files,           \* the files that exist under the Codex home
    import_meta,          \* meta of import_rollout_url
    session_id,           \* session_id of import_rollout_url
    dest,                 \* dest of import_rollout_url
    imported,             \* the ImportedSession returned, None before
    import_error          \* the message of the exception raised, or "none"

\* the locals of one call of parse_rollout_file
parserVars == <<file, pc, objects, pos, stats, records, meta, saw_event_messages,
                filtered, error>>

\* the sessions of one invocation
batchVars == <<selected_paths, run, outcomes>>

\* the parameters and locals of one call of _build_conversation_groups
groupVars == <<transcript_item_messages, gpc, idx, groups, current_prompt,
               current_start, current_messages, rendered_groups, prompt_num>>

\* the viewer page built from the result of parse_rollout_file
htmlVars == <<warnings_html>>

\* the parameter and locals of one call of group_units_by_prompt
tuiVars == <<units, upc, unit_idx, unit_groups, unit_prompt, current_units>>

\* the state of the other consumers of a session
\* the parameters, the locals and the file system of one call of
\* import_rollout_url
importVars == <<url, response, overwrite, archived, ipc, tmp_file, home_dirs,
                home_files, import_meta, session_id, dest, imported, import_error>>

laterVars == <<htmlVars, tuiVars, importVars>>

\* the state outside parse_rollout_file
callerVars == <<batchVars, groupVars, laterVars>>

vars == <<parserVars, callerVars>>

\* Longest file (lines of a .jsonl file, elements of a .json array) explored
\* over all the records below.
MaxLines == 2

\* Longest .jsonl file explored over the few lines of CoreLines.
MaxCoreLines == 4

-----------------------------------------------------------------------------
(* Python strings.  A string is the sequence of its maximal runs of        *)
(* whitespace and of non-whitespace characters, each run a TLA+ string:    *)
(* "  hi there" is <<"  ", "hi", " ", "there">> and "" is <<>>.            *)

Whitespace == {" ", "  ", "\n", "\n  "}

IsWs(tok) == tok \in Whitespace

W(word) == <<word>>

RECURSIVE LStrip(_)
LStrip(s) == IF s = <<>> THEN s
             ELSE IF IsWs(Head(s)) THEN LStrip(Tail(s)) ELSE s

RECURSIVE RStrip(_)
RStrip(s) == IF s = <<>> THEN s
             ELSE IF IsWs(s[Len(s)]) THEN RStrip(SubSeq(s, 1, Len(s) - 1)) ELSE s

\* str.strip()
Strip(s) == RStrip(LStrip(s))

\* a + b: the runs that meet at the seam merge when they are of the same class
Cat(a, b) ==
    IF a = <<>> THEN b
    ELSE IF b = <<>> THEN a
    ELSE IF IsWs(a[Len(a)]) = IsWs(Head(b))
         THEN SubSeq(a, 1, Len(a) - 1) \o <<a[Len(a)] \o Head(b)>> \o Tail(b)
         ELSE a \o b

-----------------------------------------------------------------------------
(* JSON values as json.loads builds them: None, bool, int, str, list, dict *)

JNull == [t |-> "null"]
JBool(b) == [t |-> "bool", b |-> b]
JNum(n) == [t |-> "num", n |-> n]
JStr(s) == [t |-> "str", s |-> s]
JList(xs) == [t |-> "list", xs |-> xs]
JDict(f) == [t |-> "dict", f |-> f]

EmptyDict == JDict([k \in {} |-> JNull])

IsStr(v) == v.t = "str"
IsDict(v) == v.t = "dict"
IsList(v) == v.t = "list"
IsNone(v) == v.t = "null"

\* dict.get(key): an absent key and a JSON null both read as None
Get(d, key) == IF key \in DOMAIN d.f THEN d.f[key] ELSE JNull

\* bool(v)
Truthy(v) ==
    CASE v.t = "null" -> FALSE
      [] v.t = "bool" -> v.b
      [] v.t = "num" -> v.n # 0
      [] v.t = "str" -> v.s # <<>>
      [] v.t = "list" -> v.xs # <<>>
      [] v.t = "dict" -> DOMAIN v.f # {}

\* v or default
Or(v, default) == IF Truthy(v) THEN v ELSE default

\* hash(v) succeeds: lists and dicts are unhashable
Hashable(v) == v.t \notin {"list", "dict"}

\* NonBlankStr without the strip() test: any string passes
AnyStr(v) == IsStr(v)

\* isinstance(v, str) and v.strip()
NonBlankStr(v) == IsStr(v) /\ Strip(v.s) # <<>>

-----------------------------------------------------------------------------
(* json.dumps(v, ensure_ascii=False).  Keys of a dict are written in the   *)
(* order CHOOSE fixes (Python writes them in insertion order, which this   *)
(* representation of a dict does not keep).                                *)

RECURSIVE Dumps(_)
RECURSIVE DumpsItems(_)
RECURSIVE DumpsMembers(_, _)

DumpsItems(xs) ==
    IF xs = <<>> THEN <<>>
    ELSE IF Len(xs) = 1 THEN Dumps(Head(xs))
    ELSE Cat(Cat(Dumps(Head(xs)), <<",", " ">>), DumpsItems(Tail(xs)))

DumpsMembers(f, keys) ==
    IF keys = {} THEN <<>>
    ELSE LET k == CHOOSE x \in keys : TRUE
             member == Cat(<<"\"" \o k \o "\":", " ">>, Dumps(f[k]))
         IN IF keys = {k} THEN member
            ELSE Cat(Cat(member, <<",", " ">>), DumpsMembers(f, keys \ {k}))

Dumps(v) ==
    CASE v.t = "null" -> W("null")
      [] v.t = "bool" -> IF v.b THEN W("true") ELSE W("false")
      [] v.t = "num" -> W(ToString(v.n))
      [] v.t = "str" -> Cat(Cat(W("\""), v.s), W("\""))
      [] v.t = "list" -> Cat(Cat(W("["), DumpsItems(v.xs)), W("]"))
      [] v.t = "dict" -> Cat(Cat(W("{"), DumpsMembers(v.f, DOMAIN v.f)), W("}"))

(* json.loads(s) on the texts that occur in the records explored and on   *)
(* the dumps of the messages explored: the decoded value, or a             *)
(* JSONDecodeError for any other text.                                     *)
JsonPathText == <<"{\"path\":", " ", "\"a.txt\"}">>

\* the message of a logline, as _collect_transcript_items dumps it
Message(role, content) == JDict([role |-> JStr(W(role)), content |-> content])

MessageValues ==
    { Message("user", JStr(W("Hello"))),
      Message("user", JStr(<<"  ", "hi", " ">>)),
      Message("user", JStr(W("  "))),
      Message("user", JList(<<JDict([type |-> JStr(W("tool_result")),
                                     content |-> JStr(W("done"))])>>)),
      Message("assistant", JStr(W("ok"))),
      Message("system", JList(<<JDict([type |-> JStr(W("system_record")),
                                       label |-> JStr(W("rollout:x"))])>>)) }

\* json.dumps(message_data) of each of them
MessageTexts == [m \in MessageValues |-> Dumps(m)]

Loads(s) ==
    CASE s = W("{}") -> [ok |-> TRUE, v |-> EmptyDict]
      [] s = JsonPathText -> [ok |-> TRUE, v |-> JDict([path |-> JStr(W("a.txt"))])]
      [] s = W("null") -> [ok |-> TRUE, v |-> JNull]
      [] s = W("5") -> [ok |-> TRUE, v |-> JNum(5)]
      [] s = W("[]") -> [ok |-> TRUE, v |-> JList(<<>>)]
      [] \E m \in MessageValues : MessageTexts[m] = s ->
            [ok |-> TRUE, v |-> CHOOSE m \in MessageValues : MessageTexts[m] = s]
      [] OTHER -> [ok |-> FALSE, v |-> JNull]

\* _maybe_parse_json: None for a non-string and for text that does not decode
_maybe_parse_json(s) ==
    IF ~IsStr(s) THEN JNull
    ELSE IF Loads(s.s).ok THEN Loads(s.s).v ELSE JNull

-----------------------------------------------------------------------------
(* extract_text_from_codex_content.  `item.get("type") in {...}` hashes    *)
(* the item's type, so a list or dict there raises TypeError.              *)

IsTextItem(item) ==
    /\ IsDict(item)
    /\ Get(item, "type") \in {JStr(W("input_text")), JStr(W("output_text"))}
    /\ NonBlankStr(Get(item, "text"))

RECURSIVE TextParts(_)
TextParts(items) ==
    IF items = <<>> THEN <<>>
    ELSE IF IsTextItem(Head(items))
         THEN <<Strip(Get(Head(items), "text").s)>> \o TextParts(Tail(items))
         ELSE TextParts(Tail(items))

RECURSIVE JoinSpace(_)
JoinSpace(parts) ==
    IF parts = <<>> THEN <<>>
    ELSE IF Len(parts) = 1 THEN Head(parts)
    ELSE Cat(Cat(Head(parts), W(" ")), JoinSpace(Tail(parts)))

ContentRaises(content) ==
    /\ IsList(content)
    /\ \E i \in 1..Len(content.xs) :
          IsDict(content.xs[i]) /\ ~Hashable(Get(content.xs[i], "type"))

extract_text_from_codex_content(content) ==
    IF ~IsList(content) THEN <<>>
    ELSE Strip(JoinSpace(TextParts(content.xs)))

-----------------------------------------------------------------------------
(* ParseStats and its histograms (dict[str, int])                          *)

EmptyCounter == [k \in {} |-> 0]

CounterGet(counter, key) == IF key \in DOMAIN counter THEN counter[key] ELSE 0

_bump(counter, key) ==
    [k \in DOMAIN counter \cup {key} |->
        IF k = key THEN CounterGet(counter, key) + 1 ELSE counter[k]]

ParseStats ==
    [total_lines |-> 0, parsed_rollout_lines |-> 0, skipped_lines |-> 0,
     emitted_loglines |-> 0, system_rollout_types |-> EmptyCounter,
     system_event_types |-> EmptyCounter,
     system_response_item_types |-> EmptyCounter]

-----------------------------------------------------------------------------
(* str(v), as SessionMeta applies it to id and cwd                         *)

RECURSIVE PyRepr(_)
RECURSIVE PyReprItems(_)
RECURSIVE PyReprMembers(_, _)

PyReprItems(xs) ==
    IF xs = <<>> THEN <<>>
    ELSE IF Len(xs) = 1 THEN PyRepr(Head(xs))
    ELSE Cat(Cat(PyRepr(Head(xs)), <<",", " ">>), PyReprItems(Tail(xs)))

PyReprMembers(f, keys) ==
    IF keys = {} THEN <<>>
    ELSE LET k == CHOOSE x \in keys : TRUE
             member == Cat(<<"'" \o k \o "':", " ">>, PyRepr(f[k]))
         IN IF keys = {k} THEN member
            ELSE Cat(Cat(member, <<",", " ">>), PyReprMembers(f, keys \ {k}))

PyRepr(v) ==
    CASE v.t = "null" -> W("None")
      [] v.t = "bool" -> IF v.b THEN W("True") ELSE W("False")
      [] v.t = "num" -> W(ToString(v.n))
      [] v.t = "str" -> Cat(Cat(W("'"), v.s), W("'"))
      [] v.t = "list" -> Cat(Cat(W("["), PyReprItems(v.xs)), W("]"))
      [] v.t = "dict" -> Cat(Cat(W("{"), PyReprMembers(v.f, DOMAIN v.f)), W("}"))

PyStr(v) == IF IsStr(v) THEN v.s ELSE PyRepr(v)

StrOrNone(v) == IF ~IsNone(v) THEN JStr(PyStr(v)) ELSE JNull

\* the SessionMeta(...) construction of parse_rollout_file
SessionMeta(payload) ==
    [t |-> "SessionMeta",
     id |-> StrOrNone(Get(payload, "id")),
     timestamp |-> Get(payload, "timestamp"),
     cwd |-> StrOrNone(Get(payload, "cwd")),
     originator |-> Get(payload, "originator"),
     cli_version |-> Get(payload, "cli_version"),
     instructions |-> Get(payload, "instructions"),
     source |-> Get(payload, "source"),
     model_provider |-> Get(payload, "model_provider"),
     git |-> IF IsDict(Get(payload, "git")) THEN Get(payload, "git") ELSE JNull]

-----------------------------------------------------------------------------
(* Loglines and content blocks.  The literal strings of the code ("user",  *)
(* "tool_use", ...) are TLA+ strings; values taken from the record are     *)
(* JSON values.                                                            *)

S(word) == JStr(W(word))

EmptyStr == JStr(<<>>)

Logline(type, role, timestamp, content) ==
    [type |-> type, timestamp |-> timestamp,
     message |-> [role |-> role, content |-> content]]

TextBlock(text) == [type |-> "text", text |-> text]

ThinkingBlock(text) == [type |-> "thinking", thinking |-> text]

ToolUseBlock(name, input, id) ==
    [type |-> "tool_use", name |-> name, input |-> input, id |-> id]

ToolResultBlock(content, is_error, tool_use_id) ==
    [type |-> "tool_result", content |-> content, is_error |-> is_error,
     tool_use_id |-> tool_use_id]

SystemRecordBlock(label, record) ==
    [type |-> "system_record", label |-> label, record |-> record]

\* _system_record_logline keeping the record without its payload
_system_record_logline_no_payload(timestamp, label, record) ==
    Logline("system", "system", timestamp,
            JList(<<SystemRecordBlock(JStr(label),
                        JDict([k \in DOMAIN record.f \ {"payload"} |-> record.f[k]]))>>))

_system_record_logline(timestamp, label, record) ==
    Logline("system", "system", timestamp,
            JList(<<SystemRecordBlock(JStr(label), record)>>))

_ParsedLogline(kind, logline) == [kind |-> kind, logline |-> logline]

(* What one iteration of the for loop of parse_rollout_file does after the *)
(* counters: raise, set the dedup flag, bump one histogram, append.        *)
StepResult(raises, saw, hist, key, out) ==
    [raises |-> raises, saw |-> saw, hist |-> hist, key |-> key, out |-> out]

Raise == StepResult(TRUE, FALSE, "none", <<>>, <<>>)

\* Drop counting the record dropped for empty content as an unknown event
DropCounted(saw) == StepResult(FALSE, saw, "event", W("(missing)"), <<>>)

Drop(saw) == StepResult(FALSE, saw, "none", <<>>, <<>>)

Emit(saw, kind, logline) ==
    StepResult(FALSE, saw, "none", <<>>, <<_ParsedLogline(kind, logline)>>)

SystemCard(hist, kind, key, timestamp, label, record) ==
    StepResult(FALSE, FALSE, hist, key,
               <<_ParsedLogline(kind, _system_record_logline(timestamp, label, record))>>)

-----------------------------------------------------------------------------
(* rollout_type == "event_msg" and isinstance(payload, dict)               *)

EventMsg(obj, timestamp, payload) ==
    LET event_type == Get(payload, "type")
        saw == event_type \in {S("user_message"), S("agent_message")}
        msg == Get(payload, "message")
        text == Get(payload, "text")
        reason == Get(payload, "reason")
        suffix == IF NonBlankStr(reason)
                  THEN Cat(<<" ", "(">>, Cat(reason.s, W(")")))
                  ELSE <<>>
    IN
    \* `event_type in {"user_message", "agent_message"}` hashes event_type
    IF ~Hashable(event_type) THEN Raise
    ELSE IF event_type = S("context_compacted") THEN
        Emit(saw, "event_context_compacted",
             Logline("system", "system", timestamp,
                     JList(<<TextBlock(JStr(<<"**Context", " ", "compacted**">>))>>)))
    ELSE IF event_type = S("user_message") THEN
        IF NonBlankStr(msg)
        THEN Emit(saw, "event_user_message", Logline("user", "user", timestamp, msg))
        ELSE Drop(saw)
    ELSE IF event_type = S("agent_message") THEN
        IF NonBlankStr(msg)
        THEN Emit(saw, "event_agent_message",
                  Logline("assistant", "assistant", timestamp, JList(<<TextBlock(msg)>>)))
        ELSE Drop(saw)
    ELSE IF event_type = S("turn_aborted") THEN
        Emit(saw, "event_turn_aborted",
             Logline("system", "system", timestamp,
                     JList(<<TextBlock(JStr(Cat(<<"**Turn", " ", "aborted**">>, suffix)))>>)))
    ELSE IF event_type = S("agent_reasoning") THEN
        IF NonBlankStr(text)
        THEN Emit(saw, "event_agent_reasoning",
                  Logline("system", "system", timestamp, JList(<<ThinkingBlock(text)>>)))
        ELSE Drop(saw)
    ELSE IF event_type = S("agent_reasoning_raw_content") THEN
        IF NonBlankStr(text)
        THEN Emit(saw, "event_agent_reasoning_raw",
                  Logline("system", "system", timestamp, JList(<<ThinkingBlock(text)>>)))
        ELSE Drop(saw)
    ELSE IF event_type = S("token_count") THEN
        Emit(saw, "event_token_count",
             Logline("system", "system", timestamp,
                     JList(<<ToolUseBlock(S("token_count"), payload, EmptyStr)>>)))
    ELSE IF IsStr(event_type) THEN
        SystemCard("event", "system_event_msg", event_type.s, timestamp,
                   Cat(W("event_msg:"), event_type.s), obj)
    ELSE
        SystemCard("event", "system_event_msg", W("(missing)"), timestamp,
                   W("event_msg:(missing)"), obj)

-----------------------------------------------------------------------------
(* rollout_type == "response_item" and isinstance(payload, dict)           *)

WithoutId(payload) == JDict([k \in DOMAIN payload.f \ {"id"} |-> payload.f[k]])

ToolUse(timestamp, name, input_obj, id) ==
    Emit(FALSE, "tool_use",
         Logline("assistant", "assistant", timestamp,
                 JList(<<ToolUseBlock(name, input_obj, id)>>)))

ToolResult(timestamp, output, is_error, call_id) ==
    Emit(FALSE, "tool_result",
         Logline("user", "user", timestamp,
                 JList(<<ToolResultBlock(output, is_error, call_id)>>)))

ResponseMessage(timestamp, payload) ==
    LET role == Get(payload, "role")
        content == Get(payload, "content")
        text == extract_text_from_codex_content(content)
    IN
    IF ContentRaises(content) THEN Raise
    ELSE IF role = S("user") /\ text # <<>> THEN
        Emit(FALSE, "response_user_message",
             Logline("user", "user", timestamp, JStr(text)))
    ELSE IF role = S("assistant") /\ text # <<>> THEN
        Emit(FALSE, "response_assistant_message",
             Logline("assistant", "assistant", timestamp,
                     JList(<<TextBlock(JStr(text))>>)))
    ELSE Drop(FALSE)

ResponseItem(obj, timestamp, payload) ==
    LET item_type == Get(payload, "type")
        call_id == Or(Get(payload, "call_id"), EmptyStr)
        arguments == Or(Get(payload, "arguments"), EmptyStr)
        raw_input == Get(payload, "input")
        output == Get(payload, "output")
        summary == Get(payload, "summary")
    IN
    IF item_type = S("function_call") THEN
        ToolUse(timestamp, Or(Get(payload, "name"), S("function_call")),
                IF IsNone(_maybe_parse_json(arguments))
                THEN JDict([arguments |-> arguments])
                ELSE _maybe_parse_json(arguments),
                call_id)
    ELSE IF item_type = S("custom_tool_call") THEN
        ToolUse(timestamp, Or(Get(payload, "name"), S("custom_tool_call")),
                IF IsNone(_maybe_parse_json(raw_input))
                THEN JDict([input |-> raw_input])
                ELSE _maybe_parse_json(raw_input),
                call_id)
    ELSE IF item_type = S("local_shell_call") THEN
        ToolUse(timestamp, S("local_shell_call"), WithoutId(payload), call_id)
    ELSE IF item_type = S("web_search_call") THEN
        ToolUse(timestamp, S("web_search_call"), WithoutId(payload),
                Or(Get(payload, "id"), EmptyStr))
    ELSE IF item_type = S("function_call_output") THEN
        ToolResult(timestamp, output,
                   IsDict(output) /\ Get(output, "success") = JBool(FALSE), call_id)
    ELSE IF item_type = S("custom_tool_call_output") THEN
        ToolResult(timestamp, output, FALSE, call_id)
    ELSE IF item_type = S("message") THEN
        ResponseMessage(timestamp, payload)
    ELSE IF item_type = S("reasoning") THEN
        IF ~IsNone(summary)
        THEN Emit(FALSE, "response_reasoning",
                  Logline("system", "system", timestamp,
                          JList(<<ThinkingBlock(JStr(Dumps(summary)))>>)))
        ELSE Drop(FALSE)
    ELSE IF IsStr(item_type) THEN
        SystemCard("response", "system_response_item", item_type.s, timestamp,
                   Cat(W("response_item:"), item_type.s), obj)
    ELSE
        SystemCard("response", "system_response_item", W("(missing)"), timestamp,
                   W("response_item:(missing)"), obj)

-----------------------------------------------------------------------------
(* The dispatch on rollout_type of a record whose timestamp and type are   *)
(* strings and that is not a session_meta record with a mapping payload.   *)

Compacted(timestamp, payload) ==
    IF NonBlankStr(Get(payload, "message"))
    THEN Emit(FALSE, "compacted",
              Logline("system", "system", timestamp,
                      JList(<<ThinkingBlock(Get(payload, "message"))>>)))
    ELSE Drop(FALSE)

TurnContext(timestamp, payload) ==
    Emit(FALSE, "turn_context",
         Logline("system", "system", timestamp,
                 JList(<<ToolUseBlock(S("turn_context"), payload, EmptyStr)>>)))

Normalize(obj) ==
    LET timestamp == Get(obj, "timestamp")
        rollout_type == Get(obj, "type")
        payload == Get(obj, "payload")
    IN
    IF rollout_type = S("event_msg") /\ IsDict(payload) THEN
        EventMsg(obj, timestamp, payload)
    ELSE IF rollout_type = S("response_item") /\ IsDict(payload) THEN
        ResponseItem(obj, timestamp, payload)
    ELSE IF rollout_type = S("compacted") /\ IsDict(payload) THEN
        Compacted(timestamp, payload)
    ELSE IF rollout_type = S("turn_context") /\ IsDict(payload) THEN
        TurnContext(timestamp, payload)
    ELSE
        SystemCard("rollout", "system_rollout_type", rollout_type.s, timestamp,
                   Cat(W("rollout:"), rollout_type.s), obj)

-----------------------------------------------------------------------------
(* The records explored: every branch of the dispatch, with the payload    *)
(* shapes that decide it.                                                  *)

TS == S("2025-01-01T00:00:00Z")

Rec(type, payload) == JDict([timestamp |-> TS, type |-> S(type), payload |-> payload])

Text(s) == JDict([type |-> S("input_text"), text |-> JStr(s)])

ResponseMessageRecord(role, text) ==
    Rec("response_item",
        JDict([type |-> S("message"), role |-> S(role), content |-> JList(<<Text(text)>>)]))

UserMessage(msg) == Rec("event_msg", JDict([type |-> S("user_message"), message |-> msg]))

\* timestamp or type missing or not a string
UntypedRecords ==
    { JDict([type |-> S("session_meta"), payload |-> JDict([id |-> S("s0")])]),
      JDict([timestamp |-> JNum(7), type |-> S("event_msg"),
             payload |-> JDict([type |-> S("user_message"), message |-> S("Hello")])]),
      JDict([timestamp |-> TS, type |-> JNum(1),
             payload |-> JDict([type |-> S("mystery_event")])]) }

SessionMetaRecords ==
    { Rec("session_meta",
          JDict([id |-> S("s1"), timestamp |-> TS, cwd |-> S("/repo"),
                 git |-> JDict([branch |-> S("main")])])),
      Rec("session_meta", JDict([id |-> JNum(2), git |-> S("none")])),
      Rec("session_meta", S("s3")) }

EventMsgRecords ==
    { UserMessage(S("Hello")),
      UserMessage(JStr(<<"  ", "hi", " ">>)),
      UserMessage(EmptyStr),
      UserMessage(JNum(5)),
      Rec("event_msg", JDict([type |-> S("agent_message"), message |-> S("ok")])),
      Rec("event_msg", JDict([type |-> S("agent_message"), message |-> JStr(W(" "))])),
      Rec("event_msg", JDict([type |-> S("context_compacted")])),
      Rec("event_msg", JDict([type |-> S("turn_aborted"), reason |-> S("interrupted")])),
      Rec("event_msg", JDict([type |-> S("turn_aborted")])),
      Rec("event_msg", JDict([type |-> S("agent_reasoning"), text |-> S("why")])),
      Rec("event_msg", JDict([type |-> S("agent_reasoning"), text |-> EmptyStr])),
      Rec("event_msg", JDict([type |-> S("agent_reasoning_raw_content"), text |-> S("raw")])),
      Rec("event_msg", JDict([type |-> S("token_count"), info |-> JNull])),
      Rec("event_msg", JDict([type |-> S("mystery_event"), data |-> JNum(1)])),
      Rec("event_msg", JDict([message |-> S("Hello")])),
      Rec("event_msg", JDict([type |-> JNum(5)])),
      Rec("event_msg", JDict([type |-> JList(<<S("user_message")>>)])),
      Rec("event_msg", JList(<<>>)) }

ResponseItemRecords ==
    { Rec("response_item",
          JDict([type |-> S("function_call"), name |-> S("read"), call_id |-> S("c1"),
                 arguments |-> JStr(JsonPathText)])),
      Rec("response_item",
          JDict([type |-> S("function_call"),
                 arguments |-> JStr(<<"not", " ", "json">>)])),
      Rec("response_item",
          JDict([type |-> S("function_call"), arguments |-> S("null")])),
      Rec("response_item",
          JDict([type |-> S("function_call"), name |-> S("list"),
                 arguments |-> S("[]")])),
      Rec("response_item",
          JDict([type |-> S("custom_tool_call"), call_id |-> S("c2"),
                 input |-> JList(<<>>)])),
      Rec("response_item",
          JDict([type |-> S("local_shell_call"), id |-> S("i1"), call_id |-> S("c3"),
                 action |-> S("ls")])),
      Rec("response_item",
          JDict([type |-> S("web_search_call"), id |-> S("w1"), query |-> S("q")])),
      Rec("response_item",
          JDict([type |-> S("function_call_output"), call_id |-> S("c1"),
                 output |-> JDict([success |-> JBool(FALSE)])])),
      Rec("response_item",
          JDict([type |-> S("custom_tool_call_output"), output |-> S("done")])),
      ResponseMessageRecord("user", W("Hello")),
      Rec("response_item",
          JDict([type |-> S("message"), role |-> S("assistant"),
                 content |-> JList(<<JDict([type |-> S("output_text"),
                                            text |-> JStr(<<" ", "ok">>)]),
                                     S("x"),
                                     JDict([type |-> S("output_text"),
                                            text |-> S("then")])>>)])),
      ResponseMessageRecord("user", W(" ")),
      ResponseMessageRecord("developer", W("rules")),
      Rec("response_item",
          JDict([type |-> S("message"), role |-> S("user"),
                 content |-> JList(<<JDict([type |-> JList(<<>>),
                                            text |-> S("Hello")])>>)])),
      Rec("response_item",
          JDict([type |-> S("reasoning"), summary |-> JList(<<S("plan")>>)])),
      Rec("response_item", JDict([type |-> S("reasoning")])),
      Rec("response_item", JDict([type |-> S("mystery_item")])),
      Rec("response_item", JDict([role |-> S("user")])),
      Rec("response_item", JDict([type |-> JDict([a |-> JNum(1)])])),
      Rec("response_item", JNull) }

OtherRecords ==
    { Rec("compacted", JDict([message |-> S("summary")])),
      Rec("compacted", JDict([message |-> JStr(W("\n"))])),
      Rec("turn_context", JDict([cwd |-> S("/repo")])),
      Rec("totally_new_type", JDict([x |-> JNum(1)])) }

\* JSON objects a line or an array element may hold
Mappings ==
    UntypedRecords \cup SessionMetaRecords \cup EventMsgRecords
        \cup ResponseItemRecords \cup OtherRecords

\* valid JSON that is not a mapping
NonMappings == { JList(<<JNum(1)>>) }

Values == Mappings \cup NonMappings

(* A physical line of the file, by what json.loads makes of it after       *)
(* strip(): blank, text that is not JSON, or the JSON value it decodes to. *)
BlankLine == [shape |-> "blank"]

NotJsonLine == [shape |-> "text"]

JsonLine(v) == [shape |-> "json", v |-> v]

Lines == {BlankLine, NotJsonLine} \cup {JsonLine(v) : v \in Values}

File(suffix, lines) == [suffix |-> suffix, lines |-> lines]

\* the lines of the longer files: both dialects of a turn, an event turn
\* without text, session metadata, unrecognized kinds and a damaged line
CoreLines ==
    { JsonLine(UserMessage(EmptyStr)),
      JsonLine(UserMessage(S("Hello"))),
      JsonLine(ResponseMessageRecord("user", W("Hello"))),
      JsonLine(ResponseMessageRecord("assistant", W("ok"))),
      JsonLine(Rec("session_meta", JDict([id |-> S("s4")]))),
      JsonLine(Rec("event_msg", JDict([type |-> S("mystery_event"), data |-> JNum(1)]))),
      JsonLine(Rec("event_msg", JDict([type |-> JList(<<S("user_message")>>)]))),
      NotJsonLine }

\* the elements of the arrays explored: the records of CoreLines and a value
\* that is not a mapping
CoreValues == {l.v : l \in CoreLines \ {NotJsonLine}} \cup NonMappings

\* newline-delimited files: up to MaxLines lines of any kind, or up to
\* MaxCoreLines lines of CoreLines
IsJsonlFile(f) ==
    \/ \E k \in 0..MaxLines : \E ls \in [1..k -> Lines] : f = File(".jsonl", ls)
    \/ \E k \in 0..MaxCoreLines : \E ls \in [1..k -> CoreLines] : f = File(".jsonl", ls)

\* .json files that are not an array: empty, bad text, a normalized export,
\* one record, a number, two documents
OtherJsonFiles ==
    {File(".json", ls) :
        ls \in { <<>>, <<NotJsonLine>>,
                 <<JsonLine(JDict([loglines |-> JList(<<>>)]))>>,
                 <<JsonLine(UserMessage(S("Hello")))>>,
                 <<JsonLine(JNum(1))>>,
                 <<JsonLine(UserMessage(S("Hello"))),
                   JsonLine(UserMessage(S("Hello")))>> }}

\* files read as one JSON document: an array, another document, or bad text
IsJsonFile(f) ==
    \/ \E k \in 0..MaxLines : \E xs \in [1..k -> CoreValues] :
          f = File(".json", <<JsonLine(JList(xs))>>)
    \/ f \in OtherJsonFiles

-----------------------------------------------------------------------------
(* _iter_rollout_objects                                                   *)

NonBlank(lines) == SelectSeq(lines, LAMBDA l : l.shape # "blank")

\* json.loads of the whole text: one JSON document, else JSONDecodeError
DocumentDecodes(lines) ==
    Len(NonBlank(lines)) = 1 /\ NonBlank(lines)[1].shape = "json"

OnlyDicts(vals) == SelectSeq(vals, IsDict)

LineObjects(lines) ==
    LET kept == SelectSeq(lines, LAMBDA l : l.shape = "json" /\ IsDict(l.v))
    IN [i \in 1..Len(kept) |-> kept[i].v]

_iter_rollout_objects(f) ==
    IF f.suffix = ".json" THEN
        IF ~DocumentDecodes(f.lines) THEN [raises |-> TRUE, objects |-> <<>>]
        ELSE LET data == NonBlank(f.lines)[1].v IN
             IF IsDict(data) /\ "loglines" \in DOMAIN data.f
             THEN [raises |-> FALSE, objects |-> <<>>]
             ELSE IF IsList(data)
             THEN [raises |-> FALSE, objects |-> OnlyDicts(data.xs)]
             ELSE [raises |-> FALSE, objects |-> <<>>]
    ELSE [raises |-> FALSE, objects |-> LineObjects(f.lines)]

-----------------------------------------------------------------------------
(* parse_rollout_file                                                      *)

\* RequiredFields without the test of the timestamp
TypeIsString(obj) == IsStr(Get(obj, "type"))

RequiredFields(obj) == IsStr(Get(obj, "timestamp")) /\ IsStr(Get(obj, "type"))

IsSessionMeta(obj) == Get(obj, "type") = S("session_meta") /\ IsDict(Get(obj, "payload"))

Bumped(st, hist, key) ==
    CASE hist = "rollout" ->
            [st EXCEPT !.system_rollout_types = _bump(@, key)]
      [] hist = "event" ->
            [st EXCEPT !.system_event_types = _bump(@, key)]
      [] hist = "response" ->
            [st EXCEPT !.system_response_item_types = _bump(@, key)]
      [] OTHER -> st

\* records gets the _ParsedLogline together with the index of its source
\* record in objects (kept for the properties; the code has no such field)
Tagged(out, src) ==
    [i \in 1..Len(out) |->
        [kind |-> out[i].kind, logline |-> out[i].logline, src |-> src]]

DedupKinds == {"response_user_message", "response_assistant_message"}

\* Keep filtering the tool calls with the mirrors
KeepNoToolUse(r, saw) ==
    r.logline # JNull /\ (saw => r.kind \notin DedupKinds \cup {"tool_use"})

\* Keep filtering the user mirror only
KeepAssistantMirror(r, saw) ==
    r.logline # JNull /\ (saw => r.kind # "response_user_message")

Keep(r, saw) == r.logline # JNull /\ (saw => r.kind \notin DedupKinds)

\* Dedup ignoring the flag: the else branch of the filter taken always
DedupNothing(recs, saw) == SelectSeq(recs, LAMBDA r : r.logline # JNull)

Dedup(recs, saw) == SelectSeq(recs, LAMBDA r : Keep(r, saw))

\* _build_conversation_groups has not been called
GroupIdle ==
    /\ transcript_item_messages = <<>>
    /\ gpc = "idle"
    /\ idx = 0
    /\ groups = <<>>
    /\ current_prompt = JNull
    /\ current_start = 0
    /\ current_messages = <<>>
    /\ rendered_groups = <<>>
    /\ prompt_num = 0

\* the viewer page has not been built
HtmlIdle == warnings_html = JNull

\* group_units_by_prompt has not been called
TuiIdle ==
    /\ units = <<>>
    /\ upc = "idle"
    /\ unit_idx = 1
    /\ unit_groups = <<>>
    /\ unit_prompt = JNull
    /\ current_units = <<>>

\* import_rollout_url has not been called
ImportIdle ==
    /\ url = JNull
    /\ response = JNull
    /\ overwrite = FALSE
    /\ archived = FALSE
    /\ ipc = "idle"
    /\ tmp_file = JNull
    /\ home_dirs = {}
    /\ home_files = <<>>
    /\ import_meta = JNull
    /\ session_id = JNull
    /\ dest = JNull
    /\ imported = JNull
    /\ import_error = "none"

LaterIdle == HtmlIdle /\ TuiIdle /\ ImportIdle

Init ==
    /\ GroupIdle
    /\ LaterIdle
    /\ IsJsonlFile(file) \/ IsJsonFile(file)
    /\ pc = "start"
    /\ objects = <<>>
    /\ pos = 1
    /\ stats = ParseStats
    /\ records = <<>>
    /\ meta = JNull
    /\ saw_event_messages = FALSE
    /\ filtered = <<>>
    /\ error = "none"
    /\ selected_paths = <<file>>
    /\ run = 1
    /\ outcomes = <<>>

\* the metadata assigned from every session_meta record
SetSessionMetaLastWins(current, payload) == SessionMeta(payload)

\* if meta is None: meta = SessionMeta(...)
SetSessionMeta(current, payload) ==
    IF current = JNull THEN SessionMeta(payload) ELSE current

\* the record skipped without being counted as skipped
SkippedUncounted(st) == st

\* stats.skipped_lines += 1
CountSkipped(st) == [st EXCEPT !.skipped_lines = @ + 1]

\* for obj in _iter_rollout_objects(path): the read, before the first record
IterRolloutObjects ==
    /\ pc = "start"
    /\ LET res == _iter_rollout_objects(file) IN
       IF res.raises
       THEN /\ pc' = "raised"
            /\ error' = "JSONDecodeError"
            /\ UNCHANGED objects
       ELSE /\ pc' = "loop"
            /\ objects' = res.objects
            /\ UNCHANGED error
    /\ UNCHANGED <<file, pos, stats, records, meta, saw_event_messages, filtered>>
    /\ UNCHANGED callerVars

\* one iteration of the for loop
ProcessRecord ==
    /\ pc = "loop"
    /\ pos <= Len(objects)
    /\ LET obj == objects[pos]
           counted == [stats EXCEPT !.total_lines = @ + 1]
       IN
       IF ~RequiredFields(obj) THEN
           /\ stats' = CountSkipped(counted)
           /\ UNCHANGED <<pc, records, meta, saw_event_messages, error>>
       ELSE IF IsSessionMeta(obj) THEN
           /\ stats' = [counted EXCEPT !.parsed_rollout_lines = @ + 1]
           /\ meta' = SetSessionMeta(meta, Get(obj, "payload"))
           /\ UNCHANGED <<pc, records, saw_event_messages, error>>
       ELSE LET res == Normalize(obj)
                parsed == [counted EXCEPT !.parsed_rollout_lines = @ + 1]
            IN
            IF res.raises THEN
                /\ stats' = parsed
                /\ pc' = "raised"
                /\ error' = "TypeError"
                /\ UNCHANGED <<records, meta, saw_event_messages>>
            ELSE
                /\ stats' = Bumped(parsed, res.hist, res.key)
                /\ saw_event_messages' = (saw_event_messages \/ res.saw)
                /\ records' = records \o Tagged(res.out, pos)
                /\ UNCHANGED <<pc, meta, error>>
    /\ pos' = pos + 1
    /\ UNCHANGED <<file, objects, filtered>>
    /\ UNCHANGED callerVars

\* Finish counting the loglines appended during the pass
FinishCountsAppended ==
    /\ pc = "loop"
    /\ pos > Len(objects)
    /\ filtered' = Dedup(records, saw_event_messages)
    /\ stats' = [stats EXCEPT !.emitted_loglines = Len(records)]
    /\ IF filtered' = <<>>
       THEN pc' = "raised" /\ error' = "RolloutParseError"
       ELSE pc' = "returned" /\ UNCHANGED error
    /\ UNCHANGED <<file, objects, pos, records, meta, saw_event_messages>>
    /\ UNCHANGED callerVars

\* after the loop: the dedup filter, emitted_loglines, raise or return
Finish ==
    /\ pc = "loop"
    /\ pos > Len(objects)
    /\ filtered' = Dedup(records, saw_event_messages)
    /\ stats' = [stats EXCEPT !.emitted_loglines = Len(filtered')]
    /\ IF filtered' = <<>>
       THEN pc' = "raised" /\ error' = "RolloutParseError"
       ELSE pc' = "returned" /\ UNCHANGED error
    /\ UNCHANGED <<file, objects, pos, records, meta, saw_event_messages>>
    /\ UNCHANGED callerVars

Next == IterRolloutObjects \/ ProcessRecord \/ Finish

Spec == Init /\ [][Next]_vars

\* the loglines parse_rollout_file returns
Loglines == [i \in 1..Len(filtered) |-> filtered[i].logline]

-----------------------------------------------------------------------------
(* Several sessions in one invocation: `for p in selected_paths` of        *)
(* local_cmd (cli.py) calls parse_rollout_file once per file, one call     *)
(* after the other.  A caller that catches the error of one call goes on   *)
(* to the next file as well.                                               *)

\* Longest file of an invocation of several sessions.
MaxBatchLines == 3

\* what a call hands to its caller: the triple it returns, or its exception
Outcome ==
    IF pc = "returned"
    THEN [file |-> file, result |-> "returned", loglines |-> Loglines,
          meta |-> meta, stats |-> stats]
    ELSE [file |-> file, result |-> error]

\* the sessions parsed between two calls on the same file: one that sets the
\* metadata, a histogram and the dedup flag, and one that ends in an error
BetweenFiles ==
    { File(".jsonl", <<JsonLine(Rec("session_meta", JDict([id |-> S("s4")]))),
                       JsonLine(Rec("event_msg", JDict([type |-> S("mystery_event"),
                                                        data |-> JNum(1)]))),
                       JsonLine(UserMessage(S("Hello")))>>),
      File(".jsonl", <<JsonLine(Rec("event_msg",
                                    JDict([type |-> JList(<<S("user_message")>>)])))>>) }

\* the same file twice, in a row or with another session in between
IsBatch(paths) ==
    \E k \in 0..MaxBatchLines : \E ls \in [1..k -> CoreLines] :
        LET f == File(".jsonl", ls) IN
        \/ paths = <<f, f>>
        \/ \E g \in BetweenFiles : paths = <<f, g, f>>

BatchInit ==
    /\ GroupIdle
    /\ LaterIdle
    /\ IsBatch(selected_paths)
    /\ run = 1
    /\ outcomes = <<>>
    /\ file = selected_paths[1]
    /\ pc = "start"
    /\ objects = <<>>
    /\ pos = 1
    /\ stats = ParseStats
    /\ records = <<>>
    /\ meta = JNull
    /\ saw_event_messages = FALSE
    /\ filtered = <<>>
    /\ error = "none"

\* NextSession with the dedup flag kept in a module-level variable
NextSessionKeepsDedupFlag ==
    /\ pc \in {"returned", "raised"}
    /\ run < Len(selected_paths)
    /\ outcomes' = Append(outcomes, Outcome)
    /\ run' = run + 1
    /\ file' = selected_paths[run + 1]
    /\ pc' = "start"
    /\ objects' = <<>>
    /\ pos' = 1
    /\ stats' = ParseStats
    /\ records' = <<>>
    /\ meta' = JNull
    /\ filtered' = <<>>
    /\ error' = "none"
    /\ UNCHANGED <<selected_paths, saw_event_messages>>
    /\ UNCHANGED <<groupVars, laterVars>>

\* the caller takes the outcome and calls parse_rollout_file on the next
\* file: stats = ParseStats(), records = [], meta = None, the flag False
NextSession ==
    /\ pc \in {"returned", "raised"}
    /\ run < Len(selected_paths)
    /\ outcomes' = Append(outcomes, Outcome)
    /\ run' = run + 1
    /\ file' = selected_paths[run + 1]
    /\ pc' = "start"
    /\ objects' = <<>>
    /\ pos' = 1
    /\ stats' = ParseStats
    /\ records' = <<>>
    /\ meta' = JNull
    /\ saw_event_messages' = FALSE
    /\ filtered' = <<>>
    /\ error' = "none"
    /\ UNCHANGED selected_paths
    /\ UNCHANGED <<groupVars, laterVars>>

BatchNext == IterRolloutObjects \/ ProcessRecord \/ Finish \/ NextSession

BatchSpec == BatchInit /\ [][BatchNext]_vars

-----------------------------------------------------------------------------
(* Conversation grouping (transcript.py): _parse_rfc3339 and the two loops *)
(* of _build_conversation_groups.  Of a group summary the fields computed  *)
(* from the indices, the timestamps and the prompt are kept; the rendered  *)
(* HTML and the tool statistics are left out.                              *)

\* Longest item sequence explored over all the messages below.
MaxItems == 4

\* Longest item sequence explored over all the timestamps below.
MaxStampedItems == 2

\* a datetime: milliseconds on the wall clock after 2025-01-01T00:00:00 and
\* the utcoffset in milliseconds, None for a naive value
DateTime(wall, utcoffset) == [t |-> "datetime", wall |-> wall, utcoffset |-> utcoffset]

\* datetime.fromisoformat on the texts explored; ValueError for any other
FromIsoFormat(s) ==
    CASE s = W("2025-01-01T00:00:00") -> [ok |-> TRUE, v |-> DateTime(0, JNull)]
      [] s = W("2025-01-01T00:00:01.001") -> [ok |-> TRUE, v |-> DateTime(1001, JNull)]
      [] s = W("2025-01-01T00:00:00+00:00") -> [ok |-> TRUE, v |-> DateTime(0, JNum(0))]
      [] s = W("2025-01-01T00:00:01+00:00") -> [ok |-> TRUE, v |-> DateTime(1000, JNum(0))]
      [] s = W("2025-01-01T01:00:02+01:00") ->
            [ok |-> TRUE, v |-> DateTime(3602000, JNum(3600000))]
      [] OTHER -> [ok |-> FALSE, v |-> JNull]

\* the runs that end with the letter Z, and what stands before the Z
BeforeZ ==
    [tok \in {"2025-01-01T00:00:00Z", "2025-01-01T00:00:01Z"} |->
        IF tok = "2025-01-01T00:00:00Z" THEN "2025-01-01T00:00:00"
        ELSE "2025-01-01T00:00:01"]

\* s.endswith("Z")
EndsWithZ(s) == s # <<>> /\ s[Len(s)] \in DOMAIN BeforeZ

\* s[:-1]
WithoutLast(s) == SubSeq(s, 1, Len(s) - 1) \o <<BeforeZ[s[Len(s)]]>>

_parse_rfc3339(ts) ==
    LET s == Strip(ts)
        zoned == IF EndsWithZ(s) THEN Cat(WithoutLast(s), W("+00:00")) ELSE s
    IN IF FromIsoFormat(zoned).ok THEN FromIsoFormat(zoned).v ELSE JNull

\* end_dt - start_dt raises TypeError for a naive and an aware operand
SubtractRaises(end_dt, start_dt) == (end_dt.utcoffset = JNull) # (start_dt.utcoffset = JNull)

\* the exact difference in milliseconds: of the wall clocks for two naive
\* values, of the instants for two aware values
Subtract(end_dt, start_dt) ==
    IF end_dt.utcoffset = JNull THEN end_dt.wall - start_dt.wall
    ELSE (end_dt.wall - end_dt.utcoffset.n) - (start_dt.wall - start_dt.utcoffset.n)

\* the differences whose total_seconds() * 1000, a double, lies just under
\* the exact product in absolute value (1.001 * 1000 is 1000.9999999999999)
Inexact == {1001, -1001}

\* int(delta.total_seconds() * 1000): int() cuts towards zero
TotalMilliseconds(delta) ==
    IF delta \in Inexact THEN (IF delta > 0 THEN delta - 1 ELSE delta + 1) ELSE delta

\* md = json.loads(message_json), {} on JSONDecodeError; md.get("content")
\* if md is a dict
ItemContent(item) ==
    LET md == IF Loads(item[2]).ok THEN Loads(item[2]).v ELSE EmptyDict
    IN IF IsDict(md) THEN Get(md, "content") ELSE JNull

\* IsPrompt without the test of the content
IsPromptAnyUser(item) == item[1] = "user"

\* is_prompt
IsPrompt(item) == item[1] = "user" /\ NonBlankStr(ItemContent(item))

\* Closes without the test of current_messages
ClosesAlways(is_prompt, messages) == is_prompt

\* if is_prompt and current_messages: the open group is closed
Closes(is_prompt, messages) == is_prompt /\ messages # <<>>

Group(start, end, prompt, messages) ==
    [start |-> start, end |-> end, prompt |-> prompt, messages |-> messages]

\* the timestamps the items carry (what the callers pass as second argument)
transcript_item_timestamps ==
    [k \in 1..Len(transcript_item_messages) |-> transcript_item_messages[k][3]]

\* the messages and the timestamps the items are made of
ItemMessages ==
    {<<m.f.role.s[1], MessageTexts[m]>> : m \in MessageValues}
        \cup {<<"user", <<"not", " ", "json">>>>, <<"user", W("[]")>>}

StampedMessages ==
    {<<"user", MessageTexts[Message("user", JStr(W("Hello")))]>>,
     <<"assistant", MessageTexts[Message("assistant", JStr(W("ok")))]>>}

Midnight == JStr(W("2025-01-01T00:00:00"))

Timestamps ==
    { Midnight,
      JStr(W("2025-01-01T00:00:01.001")),
      JStr(<<"2025-01-01T00:00:01Z", "\n">>),
      JStr(W("2025-01-01T01:00:02+01:00")),
      JStr(W("yesterday")),
      JStr(<<>>),
      JNum(7) }

IsItems(items) ==
    \/ \E k \in 0..MaxItems : \E ms \in [1..k -> ItemMessages] :
          items = [n \in 1..k |-> <<ms[n][1], ms[n][2], Midnight>>]
    \/ \E k \in 0..MaxStampedItems :
          \E ms \in [1..k -> StampedMessages \X Timestamps] :
              items = [n \in 1..k |-> <<ms[n][1][1], ms[n][1][2], ms[n][2]>>]

\* parse_rollout_file is not running
ParserIdle ==
    /\ file = File(".jsonl", <<>>)
    /\ pc = "idle"
    /\ objects = <<>>
    /\ pos = 1
    /\ stats = ParseStats
    /\ records = <<>>
    /\ meta = JNull
    /\ saw_event_messages = FALSE
    /\ filtered = <<>>
    /\ error = "none"
    /\ selected_paths = <<>>
    /\ run = 1
    /\ outcomes = <<>>

GroupInit ==
    /\ ParserIdle
    /\ LaterIdle
    /\ IsItems(transcript_item_messages)
    /\ gpc = "build"
    /\ idx = 0
    /\ groups = <<>>
    /\ current_prompt = JNull
    /\ current_start = 0
    /\ current_messages = <<>>
    /\ rendered_groups = <<>>
    /\ prompt_num = 0

\* one iteration of `for i, (log_type, message_json, timestamp) in enumerate`
GroupItem ==
    /\ gpc = "build"
    /\ idx < Len(transcript_item_messages)
    /\ LET item == transcript_item_messages[idx + 1]
           is_prompt == IsPrompt(item)
           closes == Closes(is_prompt, current_messages)
           prompt == IF closes THEN JNull ELSE current_prompt
           content == ItemContent(item)
       IN
       /\ groups' = IF closes
                    THEN Append(groups, Group(current_start, idx - 1, current_prompt,
                                              current_messages))
                    ELSE groups
       /\ current_start' = IF closes THEN idx ELSE current_start
       /\ current_prompt' =
             IF is_prompt /\ prompt = JNull /\ item[1] = "user"
             THEN (IF NonBlankStr(content) THEN JStr(Strip(content.s)) ELSE JNull)
             ELSE prompt
       /\ current_messages' = Append(IF closes THEN <<>> ELSE current_messages, item)
    /\ idx' = idx + 1
    /\ UNCHANGED <<transcript_item_messages, gpc, rendered_groups, prompt_num>>
    /\ UNCHANGED <<parserVars, batchVars, laterVars>>

\* after the loop: `if current_messages:` the open group is closed
CloseLastGroup ==
    /\ gpc = "build"
    /\ idx = Len(transcript_item_messages)
    /\ groups' = IF current_messages # <<>>
                 THEN Append(groups, Group(current_start,
                                           Len(transcript_item_messages) - 1,
                                           current_prompt, current_messages))
                 ELSE groups
    /\ gpc' = "render"
    /\ UNCHANGED <<transcript_item_messages, idx, current_prompt, current_start,
                   current_messages, rendered_groups, prompt_num>>
    /\ UNCHANGED <<parserVars, batchVars, laterVars>>

\* one iteration of `for group_idx, g in enumerate(groups)`: the summary of
\* one group, or the TypeError of the subtraction
RenderGroup ==
    /\ gpc = "render"
    /\ Len(rendered_groups) < Len(groups)
    /\ LET group_idx == Len(rendered_groups)
           g == groups[group_idx + 1]
           start_ts == IF g.start < Len(transcript_item_timestamps)
                       THEN transcript_item_timestamps[g.start + 1] ELSE EmptyStr
           end_ts == IF g.end < Len(transcript_item_timestamps)
                     THEN transcript_item_timestamps[g.end + 1] ELSE start_ts
           start_dt == IF IsStr(start_ts) THEN _parse_rfc3339(start_ts.s) ELSE JNull
           end_dt == IF IsStr(end_ts) THEN _parse_rfc3339(end_ts.s) ELSE JNull
           both == start_dt # JNull /\ end_dt # JNull
           prompt_raw == IF NonBlankStr(g.prompt) THEN JStr(Strip(g.prompt.s)) ELSE JNull
       IN
       IF both /\ SubtractRaises(end_dt, start_dt) THEN
           /\ gpc' = "raised"
           /\ UNCHANGED <<rendered_groups, prompt_num>>
       ELSE
           /\ prompt_num' = IF prompt_raw # JNull THEN prompt_num + 1 ELSE prompt_num
           /\ rendered_groups' =
                 Append(rendered_groups,
                        [group_index |-> group_idx,
                         display_label |-> IF prompt_raw # JNull
                                           THEN "#" \o ToString(prompt_num')
                                           ELSE "Start",
                         start |-> g.start,
                         end |-> g.end,
                         start_ts |-> start_ts,
                         end_ts |-> end_ts,
                         duration_ms |-> IF both
                                         THEN JNum(TotalMilliseconds(Subtract(end_dt, start_dt)))
                                         ELSE JNull,
                         message_count |-> IF g.end >= g.start
                                           THEN g.end - g.start + 1 ELSE 0,
                         prompt_raw |-> prompt_raw])
           /\ UNCHANGED gpc
    /\ UNCHANGED <<transcript_item_messages, idx, groups, current_prompt,
                   current_start, current_messages>>
    /\ UNCHANGED <<parserVars, batchVars, laterVars>>

\* return groups, rendered_groups, task_time_summary
ReturnGroups ==
    /\ gpc = "render"
    /\ Len(rendered_groups) = Len(groups)
    /\ gpc' = "returned"
    /\ UNCHANGED <<transcript_item_messages, idx, groups, current_prompt,
                   current_start, current_messages, rendered_groups, prompt_num>>
    /\ UNCHANGED <<parserVars, batchVars, laterVars>>

\* the durations the task time summary is computed from
task_duration_ms ==
    LET timed == SelectSeq(rendered_groups,
                           LAMBDA g : g.prompt_raw # JNull /\ g.duration_ms # JNull)
    IN [k \in 1..Len(timed) |-> timed[k].duration_ms.n]

GroupNext == GroupItem \/ CloseLastGroup \/ RenderGroup \/ ReturnGroups

GroupSpec == GroupInit /\ [][GroupNext]_vars

-----------------------------------------------------------------------------
(* The drift notice of the HTML viewer (transcript.py):                    *)
(* generate_html_from_rollout parses the file and hands the ParseStats to  *)
(* _format_drift_warning_html.  The notice is kept as the arguments given  *)
(* to the system_records_notice macro; its markup is not modelled.         *)

\* Longest file of the sessions rendered.
MaxDriftLines == 3

\* sum(counter.values())
RECURSIVE SumOver(_, _)
SumOver(counter, keys) ==
    IF keys = {} THEN 0
    ELSE LET k == CHOOSE x \in keys : TRUE
         IN counter[k] + SumOver(counter, keys \ {k})

SumValues(counter) == SumOver(counter, DOMAIN counter)

\* json.dumps(counter, indent=2): one line per key
RECURSIVE DumpsCounterMembers(_, _)
DumpsCounterMembers(counter, keys) ==
    IF keys = {} THEN <<>>
    ELSE LET k == CHOOSE x \in keys : TRUE
             count == ToString(counter[k]) \o (IF keys = {k} THEN "" ELSE ",")
             member == Cat(Cat(W("\n  "), Cat(Cat(W("\""), k), W("\":"))),
                           <<" ", count>>)
         IN Cat(member, DumpsCounterMembers(counter, keys \ {k}))

DumpsCounter(counter) ==
    Cat(Cat(W("{"), DumpsCounterMembers(counter, DOMAIN counter)), <<"\n", "}">>)

\* json.dumps(...) if the histogram is not empty else ""
CounterJson(counter) ==
    IF DOMAIN counter # {} THEN JStr(DumpsCounter(counter)) ELSE EmptyStr

system_records_notice(system_total, rollout_json, event_json, response_json) ==
    [t |-> "system_records_notice", system_total |-> system_total,
     rollout_json |-> rollout_json, event_json |-> event_json,
     response_json |-> response_json]

\* SystemTotal without the response-item histogram
SystemTotalOfTwo(st) ==
    SumValues(st.system_rollout_types) + SumValues(st.system_event_types)

SystemTotal(st) ==
    SumValues(st.system_rollout_types) + SumValues(st.system_event_types)
        + SumValues(st.system_response_item_types)

_format_drift_warning_html(st) ==
    IF st = JNull THEN EmptyStr
    ELSE IF SystemTotal(st) <= 0 THEN EmptyStr
    ELSE system_records_notice(SystemTotal(st),
                               CounterJson(st.system_rollout_types),
                               CounterJson(st.system_event_types),
                               CounterJson(st.system_response_item_types))

\* the lines of the sessions rendered: unrecognized records of the three
\* histograms, recognized records and a session_meta record
DriftLines ==
    { JsonLine(Rec("event_msg", JDict([type |-> S("mystery_event"), data |-> JNum(1)]))),
      JsonLine(Rec("event_msg", JDict([message |-> S("Hello")]))),
      JsonLine(Rec("response_item", JDict([type |-> S("mystery_item")]))),
      JsonLine(Rec("totally_new_type", JDict([x |-> JNum(1)]))),
      JsonLine(UserMessage(S("Hello"))),
      JsonLine(Rec("turn_context", JDict([cwd |-> S("/repo")]))),
      JsonLine(Rec("session_meta", JDict([id |-> S("s4")]))) }

HtmlInit ==
    /\ GroupIdle
    /\ LaterIdle
    /\ \E k \in 0..MaxDriftLines : \E ls \in [1..k -> DriftLines] :
          file = File(".jsonl", ls)
    /\ pc = "start"
    /\ objects = <<>>
    /\ pos = 1
    /\ stats = ParseStats
    /\ records = <<>>
    /\ meta = JNull
    /\ saw_event_messages = FALSE
    /\ filtered = <<>>
    /\ error = "none"
    /\ selected_paths = <<file>>
    /\ run = 1
    /\ outcomes = <<>>

\* warnings_html = _format_drift_warning_html(stats), after the parse returned
FormatDriftWarning ==
    /\ pc = "returned"
    /\ warnings_html = JNull
    /\ warnings_html' = _format_drift_warning_html(stats)
    /\ UNCHANGED <<parserVars, batchVars, groupVars, tuiVars, importVars>>

HtmlNext == IterRolloutObjects \/ ProcessRecord \/ Finish \/ FormatDriftWarning

HtmlSpec == HtmlInit /\ [][HtmlNext]_vars

-----------------------------------------------------------------------------
(* import_rollout_url: the download of a rollout into the Codex home.  A    *)
(* file name is the sequence of its parts; a path under the home is a       *)
(* directory (a sequence of names) and a file name.  Instants are           *)
(* milliseconds after 2025-01-01T00:00:00 UTC, as in DateTime.              *)

\* Largest number of files the Codex home holds before the import.
MaxExisting == 1

\* max_records of read_rollout_head
max_records == 50

\* max_bytes of import_rollout_url
max_bytes == 50 * 1024 * 1024

UuidA == "11111111-1111-1111-1111-111111111111"

UuidB == "22222222-2222-2222-2222-222222222222"

UuidUpper == "AAAAAAAA-AAAA-AAAA-AAAA-AAAAAAAAAAAA"

\* str(uuid.UUID(s)) for the texts uuid.UUID accepts; ValueError for any other
UuidTable ==
    [tok \in {UuidA, UuidB, UuidUpper} |->
        IF tok = UuidUpper THEN "aaaaaaaa-aaaa-aaaa-aaaa-aaaaaaaaaaaa" ELSE tok]

_normalize_uuid(value) ==
    IF IsNone(value) THEN JNull
    ELSE LET s == Strip(PyStr(value)) IN
         IF s = <<>> THEN JNull
         ELSE IF Len(s) = 1 /\ s[1] \in DOMAIN UuidTable THEN S(UuidTable[s[1]])
         ELSE JNull

\* _parse_rfc3339 of remote.py: a naive time is taken as UTC, any other is
\* converted to UTC
remote_parse_rfc3339(ts) ==
    IF ~Truthy(ts) \/ ~IsStr(ts) THEN JNull
    ELSE LET s == Strip(ts.s)
             zoned == IF EndsWithZ(s) THEN Cat(WithoutLast(s), W("+00:00")) ELSE s
             parsed == FromIsoFormat(zoned)
         IN IF ~parsed.ok THEN JNull
            ELSE IF parsed.v.utcoffset = JNull THEN DateTime(parsed.v.wall, JNum(0))
            ELSE DateTime(parsed.v.wall - parsed.v.utcoffset.n, JNum(0))

\* f"{n:02d}"
TwoDigits(n) == IF n < 10 THEN "0" \o ToString(n) ELSE ToString(n)

\* dt.day of an instant of January 2025
Day(dt) == 1 + (dt.wall \div 86400000)

\* f"{dt.month:02d}" and f"{dt.year:04d}" of an instant of January 2025
Month(dt) == "01"

Year(dt) == "2025"

SecondOfDay(dt) == (dt.wall % 86400000) \div 1000

\* dt.strftime("%Y-%m-%dT%H-%M-%S")
StrfTime(dt) ==
    Year(dt) \o "-" \o Month(dt) \o "-" \o TwoDigits(Day(dt))
        \o "T" \o TwoDigits(SecondOfDay(dt) \div 3600)
        \o "-" \o TwoDigits((SecondOfDay(dt) % 3600) \div 60)
        \o "-" \o TwoDigits(SecondOfDay(dt) % 60)

\* what datetime.now(timezone.utc) can return
Clock == { DateTime(86405000, JNum(0)) }

\* what uuid.uuid4() can return
FreshUuids == { S("99999999-9999-4999-8999-999999999999") }

\* rollout-<ts>-<uuid><ending>
RolloutName(ts, uuid, ending) == <<"rollout-", ts, "-", uuid, ending>>

\* ROLLOUT_FILENAME_RE.match(name): the pattern ends with an escaped
\* backslash, any character and "jsonl"
RolloutFilenameMatch(name) ==
    /\ Len(name) = 5
    /\ name[1] = "rollout-"
    /\ name[2] # ""
    /\ name[3] = "-"
    /\ name[4] \in DOMAIN UuidTable
    /\ name[5] \in {"\\.jsonl", "\\-jsonl"}

get_session_id_from_filename(path) ==
    IF RolloutFilenameMatch(path.name) THEN S(path.name[4]) ELSE JNull

Url(scheme, name) == [scheme |-> scheme, name |-> name]

\* str.lower() of the schemes explored
Lower(s) == IF s = "HTTPS" THEN "https" ELSE s

_is_http_url(u) == Lower(u.scheme) \in {"http", "https"}

\* the last segment of the path of the URL; None is written as the empty
\* name, which the callers treat alike
_url_filename(u) == u.name

\* the suffix _download_url_to_tempfile gives the temporary file
Suffix(u) ==
    LET name == _url_filename(u) IN
    IF name # <<>> /\ name[Len(name)] = ".json" THEN ".json" ELSE ".jsonl"

Urls ==
    { Url("https", RolloutName("2025-01-01T00-00-01", UuidA, ".jsonl")),
      Url("HTTPS", RolloutName("2024-12-31T09-00-00", UuidB, ".jsonl")),
      Url("http", RolloutName("2024-12-31T09-00-00", UuidB, "\\.jsonl")),
      Url("https", <<"session", ".json">>),
      Url("https", <<>>),
      Url("ftp", RolloutName("2025-01-01T00-00-01", UuidA, ".jsonl")) }

\* the bytes of a download: text lines, or bytes that are not UTF-8
Body(lines) == [utf8 |-> TRUE, lines |-> lines]

NotUtf8 == [utf8 |-> FALSE, lines |-> <<>>]

Filler == JsonLine(UserMessage(S("Hello")))

Repeat(n, line) == [k \in 1..n |-> line]

HeadMeta(id, timestamp) ==
    JsonLine(Rec("session_meta", JDict([id |-> id, timestamp |-> timestamp])))

Bodies ==
    { Body(<<HeadMeta(S(UuidA), S("2025-01-01T00:00:01Z")), Filler>>),
      Body(<<Filler, HeadMeta(S(UuidUpper), JNull)>>),
      Body(<<HeadMeta(S("s1"), S("2025-01-01T01:00:02+01:00"))>>),
      Body(<<JsonLine(JDict([type |-> S("session_meta"),
                            payload |-> JDict([id |-> S(UuidB)])]))>>),
      Body(<<Filler>>),
      Body(<<JsonLine(Rec("session_meta", S("s3"))), BlankLine>>),
      Body(<<>>),
      Body(Repeat(max_records, Filler)
               \o <<HeadMeta(S(UuidA), S("2025-01-01T00:00:01Z"))>>),
      Body(Repeat(max_records - 1, Filler)
               \o <<NotJsonLine, BlankLine, JsonLine(JList(<<JNum(1)>>)),
                    HeadMeta(S(UuidA), S("2025-01-01T00:00:01Z"))>>),
      NotUtf8 }

\* an answer of the server: the status, the Content-Length header (None when
\* absent), the number of bytes streamed and the bytes
Answer(content_length, size, body) ==
    [kind |-> "ok", content_length |-> content_length, size |-> size, body |-> body]

RequestError == [kind |-> "request_error"]

HTTPStatusError == [kind |-> "http_status"]

Responses ==
    {RequestError, HTTPStatusError}
        \cup { Answer(JNull, 1024, b) : b \in Bodies }
        \cup { Answer(h, max_bytes + 1, Body(<<Filler>>)) :
                 h \in {JNull, S("huge"), JStr(W(ToString(max_bytes + 1)))} }
        \cup { Answer(JStr(W(ToString(max_bytes))), max_bytes, Body(<<Filler>>)) }

\* int(content_length), None on ValueError
IntOrNone(text) ==
    IF text = W(ToString(max_bytes)) THEN JNum(max_bytes)
    ELSE IF text = W(ToString(max_bytes + 1)) THEN JNum(max_bytes + 1)
    ELSE JNull

\* the Content-Length check, made before the temporary file is opened
TooLargeHeader(resp) ==
    /\ resp.content_length # JNull
    /\ IntOrNone(resp.content_length.s) # JNull
    /\ IntOrNone(resp.content_length.s).n > max_bytes

\* total > max_bytes for some chunk
TooLargeStream(resp) == resp.size > max_bytes

RECURSIVE ReadHead(_, _, _)
ReadHead(lines, k, head) ==
    IF k > Len(lines) \/ Len(head) >= max_records THEN head
    ELSE ReadHead(lines, k + 1,
                  IF lines[k].shape = "json" /\ IsDict(lines[k].v)
                  THEN Append(head, lines[k].v) ELSE head)

\* read_rollout_head without the limit of max_records
ReadWholeFile(body) == LineObjects(body.lines)

read_rollout_head(body) == ReadHead(body.lines, 1, <<>>)

extract_session_meta_from_head(head) ==
    LET found == SelectSeq(head, IsSessionMeta)
    IN IF found = <<>> THEN JNull ELSE SessionMeta(Get(found[1], "payload"))

Path(dir, name) == [dir |-> dir, name |-> name]

\* dest_dir of import_rollout_url
DestDir(arch, dt) ==
    IF arch THEN <<"archived_sessions">>
    ELSE <<"sessions", Year(dt), Month(dt), TwoDigits(Day(dt))>>

\* filename of import_rollout_url
Filename(u, dt, sid) ==
    IF _url_filename(u) # <<>> /\ RolloutFilenameMatch(_url_filename(u))
    THEN _url_filename(u)
    ELSE RolloutName(StrfTime(dt), sid.s[1], ".jsonl")

\* dest_dir.mkdir(parents=True, exist_ok=True)
Mkdir(dirs, dir) == dirs \cup { SubSeq(dir, 1, k) : k \in 1..Len(dir) }

\* the destination replaced whatever it holds
SkipsCheck(files, path, ow) == FALSE

\* dest.exists() and not overwrite
Refuses(files, path, ow) == path \in DOMAIN files /\ ~ow

\* tmp.unlink(missing_ok=True) left out
UnlinkSkipped(f) == f

\* tmp.unlink(missing_ok=True)
Unlink(f) == JNull

ImportedSession(u, path, sid, timestamp) ==
    [t |-> "ImportedSession", url |-> u, path |-> path, session_id |-> sid,
     timestamp |-> timestamp]

\* the content of a session stored before the import
Old == Body(<<HeadMeta(S("old"), JNull)>>)

\* where the Codex home can hold a session before the import
KnownPaths ==
    { Path(<<"sessions", "2025", "01", "01">>,
           RolloutName("2025-01-01T00-00-01", UuidA, ".jsonl")),
      Path(<<"archived_sessions">>,
           RolloutName("2025-01-01T00-00-01", UuidA, ".jsonl")),
      Path(<<"sessions", "2025", "01", "01">>,
           RolloutName("2024-12-31T09-00-00", UuidB, "\\.jsonl")) }

\* what tmp.replace(dest) can do: move the file, or fail with the errno
\* named; after EXDEV the bytes are copied and the temporary file unlinked
ReplaceOutcomes == {"moved", "EXDEV", "EACCES"}

ImportInit ==
    /\ GroupIdle
    /\ ParserIdle
    /\ HtmlIdle
    /\ TuiIdle
    /\ url \in Urls
    /\ response \in Responses
    /\ overwrite \in BOOLEAN
    /\ archived \in BOOLEAN
    /\ ipc = "start"
    /\ tmp_file = JNull
    /\ \E held \in SUBSET KnownPaths :
          /\ Cardinality(held) <= MaxExisting
          /\ home_files = [p \in held |-> Old]
          /\ home_dirs = UNION { Mkdir({}, p.dir) : p \in held }
    /\ import_meta = JNull
    /\ session_id = JNull
    /\ dest = JNull
    /\ imported = JNull
    /\ import_error = "none"

\* raise click.ClickException(msg): the handlers on the way out remove the
\* temporary file
ImportRaise(msg) ==
    /\ ipc' = "raised"
    /\ import_error' = msg
    /\ tmp_file' = Unlink(tmp_file)

\* if not _is_http_url(url): raise
CheckUrl ==
    /\ ipc = "start"
    /\ IF ~_is_http_url(url)
       THEN /\ ipc' = "raised"
            /\ import_error' = "URL must start with http:// or https://"
       ELSE /\ ipc' = "download"
            /\ UNCHANGED import_error
    /\ UNCHANGED <<url, response, overwrite, archived, tmp_file, home_dirs,
                   home_files, import_meta, session_id, dest, imported>>
    /\ UNCHANGED <<parserVars, batchVars, groupVars, htmlVars, tuiVars>>

\* tmp = _download_url_to_tempfile(...)
Download ==
    /\ ipc = "download"
    /\ IF response.kind \in {"request_error", "http_status"}
       THEN ImportRaise("Failed to fetch URL")
       ELSE IF TooLargeHeader(response)
       THEN ImportRaise("Remote file is too large")
       ELSE IF TooLargeStream(response)
       THEN ImportRaise("Remote file exceeded max size")
       ELSE /\ ipc' = "downloaded"
            /\ tmp_file' = [suffix |-> Suffix(url), body |-> response.body]
            /\ UNCHANGED import_error
    /\ UNCHANGED <<url, response, overwrite, archived, home_dirs, home_files,
                   import_meta, session_id, dest, imported>>
    /\ UNCHANGED <<parserVars, batchVars, groupVars, htmlVars, tuiVars>>

\* from read_rollout_head(tmp) to dest = dest_dir / filename, the creation
\* of dest_dir left to Store
NameSession ==
    /\ ipc = "downloaded"
    /\ IF ~tmp_file.body.utf8
       THEN /\ ImportRaise("Downloaded file is not valid UTF-8 JSONL.")
            /\ UNCHANGED <<import_meta, session_id, dest>>
       ELSE LET head == read_rollout_head(tmp_file.body)
                m == extract_session_meta_from_head(head)
            IN IF m = JNull
               THEN /\ ImportRaise("Downloaded file does not look like a Codex rollout (missing session_meta).")
                    /\ UNCHANGED <<import_meta, session_id, dest>>
               ELSE \E now \in Clock, fresh \in FreshUuids :
                      LET first == IF head # <<>> THEN Get(head[1], "timestamp") ELSE JNull
                          parsed == IF remote_parse_rfc3339(m.timestamp) # JNull
                                    THEN remote_parse_rfc3339(m.timestamp)
                                    ELSE remote_parse_rfc3339(first)
                          dt == IF parsed = JNull THEN now ELSE parsed
                          sid == IF _normalize_uuid(m.id) # JNull
                                 THEN _normalize_uuid(m.id) ELSE fresh
                      IN /\ import_meta' = m
                         /\ session_id' = sid
                         /\ dest' = Path(DestDir(archived, dt), Filename(url, dt, sid))
                         /\ ipc' = "named"
                         /\ UNCHANGED <<tmp_file, import_error>>
    /\ UNCHANGED <<url, response, overwrite, archived, home_dirs, home_files, imported>>
    /\ UNCHANGED <<parserVars, batchVars, groupVars, htmlVars, tuiVars>>

\* from dest_dir.mkdir(...) to the return, the finally clause included
Store ==
    /\ ipc = "named"
    /\ home_dirs' = Mkdir(home_dirs, dest.dir)
    /\ IF Refuses(home_files, dest, overwrite)
       THEN /\ ImportRaise("Session already exists")
            /\ UNCHANGED <<home_files, imported>>
       ELSE \E outcome \in ReplaceOutcomes :
              IF outcome = "EACCES"
              THEN /\ ImportRaise("OSError")
                   /\ UNCHANGED <<home_files, imported>>
              ELSE /\ home_files' = [p \in DOMAIN home_files \cup {dest} |->
                                        IF p = dest THEN tmp_file.body ELSE home_files[p]]
                   /\ tmp_file' = IF outcome = "moved" THEN JNull
                                  ELSE Unlink(Unlink(tmp_file))
                   /\ imported' = ImportedSession(url, dest, session_id,
                                                  import_meta.timestamp)
                   /\ ipc' = "returned"
                   /\ UNCHANGED import_error
    /\ UNCHANGED <<url, response, overwrite, archived, import_meta, session_id, dest>>
    /\ UNCHANGED <<parserVars, batchVars, groupVars, htmlVars, tuiVars>>

ImportNext == CheckUrl \/ Download \/ NameSession \/ Store

ImportSpec == ImportInit /\ [][ImportNext]_vars

-----------------------------------------------------------------------------
(* group_units_by_prompt of the terminal viewer                             *)

\* Longest list of units grouped.
MaxUnits == 4

MessageUnit(kind, title) ==
    [t |-> "MessageUnit", timestamp |-> TS.s, kind |-> kind, title |-> title,
     lines |-> <<title>>, search_text |-> title]

ConversationGroup(prompt, us) == [t |-> "ConversationGroup", prompt |-> prompt, units |-> us]

\* the units of a session: two prompts and the kinds that follow a prompt
MessageUnits ==
    { MessageUnit("user", "Hello"),
      MessageUnit("user", "again"),
      MessageUnit("assistant", "ok"),
      MessageUnit("tool_call", "shell"),
      MessageUnit("system", "rollout:mystery") }

\* a group is closed only when it has a prompt
OpenedByPrompt(prompt, us) == prompt # JNull

\* current_prompt is not None or current_units
Opened(prompt, us) == prompt # JNull \/ us # <<>>

TuiInit ==
    /\ ParserIdle
    /\ GroupIdle
    /\ HtmlIdle
    /\ ImportIdle
    /\ \E n \in 0..MaxUnits : units \in [1..n -> MessageUnits]
    /\ upc = "loop"
    /\ unit_idx = 1
    /\ unit_groups = <<>>
    /\ unit_prompt = JNull
    /\ current_units = <<>>

\* one pass of for u in units
GroupUnit ==
    /\ upc = "loop"
    /\ unit_idx <= Len(units)
    /\ LET u == units[unit_idx] IN
       IF u.kind = "user"
       THEN /\ unit_groups' = IF Opened(unit_prompt, current_units)
                              THEN Append(unit_groups,
                                          ConversationGroup(unit_prompt, current_units))
                              ELSE unit_groups
            /\ unit_prompt' = u
            /\ current_units' = <<u>>
       ELSE /\ current_units' = Append(current_units, u)
            /\ UNCHANGED <<unit_groups, unit_prompt>>
    /\ unit_idx' = unit_idx + 1
    /\ UNCHANGED <<units, upc>>
    /\ UNCHANGED <<parserVars, batchVars, groupVars, htmlVars, importVars>>

\* the group open after the loop, and the return
ReturnUnitGroups ==
    /\ upc = "loop"
    /\ unit_idx > Len(units)
    /\ unit_groups' = IF Opened(unit_prompt, current_units)
                      THEN Append(unit_groups, ConversationGroup(unit_prompt, current_units))
                      ELSE unit_groups
    /\ upc' = "returned"
    /\ UNCHANGED <<units, unit_idx, unit_prompt, current_units>>
    /\ UNCHANGED <<parserVars, batchVars, groupVars, htmlVars, importVars>>

TuiNext == GroupUnit \/ ReturnUnitGroups

TuiSpec == TuiInit /\ [][TuiNext]_vars

-----------------------------------------------------------------------------
(* Vocabulary of the properties, stated on the input records themselves    *)

Terminated == pc \in {"returned", "raised"}

\* the records the for loop has gone through
Processed == IF pc = "start" THEN {} ELSE 1..(pos - 1)

HasStringFields(o) == Get(o, "timestamp").t = "str" /\ Get(o, "type").t = "str"

PayloadKind(o) ==
    IF Get(o, "payload").t = "dict" THEN Get(Get(o, "payload"), "type") ELSE JNull

IsDialect(o, dialect) ==
    /\ HasStringFields(o)
    /\ Get(o, "type") = S(dialect)
    /\ Get(o, "payload").t = "dict"

\* an event_msg record of kind user_message or agent_message
IsEventTurn(o) ==
    /\ IsDialect(o, "event_msg")
    /\ PayloadKind(o) \in {S("user_message"), S("agent_message")}

\* a response_item record of kind message
IsResponseMessage(o) == IsDialect(o, "response_item") /\ PayloadKind(o) = S("message")

EventKinds ==
    {S(k) : k \in {"user_message", "agent_message", "context_compacted",
                   "turn_aborted", "agent_reasoning", "agent_reasoning_raw_content",
                   "token_count"}}

ResponseItemKinds ==
    {S(k) : k \in {"function_call", "custom_tool_call", "local_shell_call",
                   "web_search_call", "function_call_output",
                   "custom_tool_call_output", "message", "reasoning"}}

Dialects == {"session_meta", "event_msg", "response_item", "compacted", "turn_context"}

\* the histogram an unrecognized record belongs to, "none" for a recognized one
DriftHistogram(o) ==
    IF ~HasStringFields(o) THEN "none"
    ELSE IF IsDialect(o, "event_msg")
         THEN (IF PayloadKind(o) \in EventKinds THEN "none" ELSE "event")
    ELSE IF IsDialect(o, "response_item")
         THEN (IF PayloadKind(o) \in ResponseItemKinds THEN "none" ELSE "response")
    ELSE IF \E d \in Dialects : IsDialect(o, d) THEN "none"
    ELSE "rollout"

\* the kind (or type) an unrecognized record is counted and labelled under
DriftKey(o) ==
    IF DriftHistogram(o) = "rollout" THEN Get(o, "type").s
    ELSE IF PayloadKind(o).t = "str" THEN PayloadKind(o).s
    ELSE W("(missing)")

DriftLabel(o) ==
    Cat(W(CASE DriftHistogram(o) = "event" -> "event_msg:"
            [] DriftHistogram(o) = "response" -> "response_item:"
            [] OTHER -> "rollout:"),
        DriftKey(o))

IsSystemCard(l, label) ==
    /\ l.type = "system"
    /\ l.message.content.t = "list"
    /\ Len(l.message.content.xs) = 1
    /\ l.message.content.xs[1].type = "system_record"
    /\ l.message.content.xs[1].label = JStr(label)

Histogram(hist) ==
    CASE hist = "rollout" -> stats.system_rollout_types
      [] hist = "event" -> stats.system_event_types
      [] hist = "response" -> stats.system_response_item_types

\* the entries of a list of tagged loglines that come from record j
From(recs, j) == {k \in 1..Len(recs) : recs[k].src = j}

\* the positions of records whose entry is still in filtered
Returned(k) == \E i \in 1..Len(filtered) : filtered[i] = records[k]

-----------------------------------------------------------------------------
\* C1: whenever parse_rollout_file returns, stats.emitted_loglines is the
\* length of the returned loglines, the count after the dedup filter and not
\* the count of loglines appended during the pass.
C1_EmittedIsReturnedLength ==
    pc = "returned" => stats.emitted_loglines = Len(Loglines)

\* a return where the filter removed a logline, so the two counts differ
C1_Witness ==
    /\ pc = "returned"
    /\ Len(Loglines) < Len(records)
    /\ stats.emitted_loglines = Len(Loglines)

\* C2: the dedup decision is taken once for the session.  If an event_msg of
\* kind user_message or agent_message was processed anywhere in the file
\* (with or without text), no returned logline comes from a response_item
\* message, wherever that record stands; if none was processed, every
\* logline a response_item message produced is returned.
C2_DedupLaw ==
    pc = "returned" =>
        IF \E j \in 1..Len(objects) : IsEventTurn(objects[j])
        THEN \A i \in 1..Len(filtered) : ~IsResponseMessage(objects[filtered[i].src])
        ELSE \A k \in 1..Len(records) :
                IsResponseMessage(objects[records[k].src]) => Returned(k)

\* a return where a response_item message that stood before an event turn
\* without text was appended and is not returned
C2_Witness ==
    /\ pc = "returned"
    /\ \E k \in 1..Len(records) : \E j \in 1..Len(objects) :
          /\ IsResponseMessage(objects[records[k].src])
          /\ records[k].src < j
          /\ IsEventTurn(objects[j])
          /\ From(records, j) = {}
          /\ ~Returned(k)

\* C3: every record with a string timestamp and type whose kind or type is
\* not in the recognized tables (an event_msg or response_item whose kind is
\* unrecognized, missing or not a string, an unrecognized top-level type)
\* gets exactly one system logline holding one system_record block labelled
\* event_msg:{kind}, response_item:{kind} or rollout:{type}, and exactly one
\* count under that key in the corresponding histogram, no other histogram
\* changing.  (A recognized dialect whose payload is not a mapping is read
\* here as an unrecognized top-level record, labelled rollout:{type}.)
C3_UnrecognizedKindLaw ==
    /\ \A j \in Processed :
          DriftHistogram(objects[j]) # "none" =>
              /\ Cardinality(From(records, j)) = 1
              /\ \A k \in From(records, j) :
                    IsSystemCard(records[k].logline, DriftLabel(objects[j]))
    /\ \A h \in {"rollout", "event", "response"} :
          \A key \in DOMAIN Histogram(h) \cup
                        {DriftKey(objects[j]) :
                            j \in {i \in Processed : DriftHistogram(objects[i]) # "none"}} :
              CounterGet(Histogram(h), key) =
                  Cardinality({j \in Processed :
                                  /\ DriftHistogram(objects[j]) = h
                                  /\ DriftKey(objects[j]) = key})
    /\ Terminated =>
          \A j \in 1..Len(objects) :
              DriftHistogram(objects[j]) # "none" =>
                  /\ pc = "returned"
                  /\ Cardinality(From(filtered, j)) = 1

\* C4: parse_rollout_file raises RolloutParseError exactly when the pass ends
\* with no logline left after normalization and deduplication; so it does for
\* a file without parseable records and for a file whose records all
\* normalize to empty content, and it never returns an empty list.
Remaining ==
    {k \in 1..Len(records) :
        ~(/\ IsResponseMessage(objects[records[k].src])
          /\ \E j \in 1..Len(objects) : IsEventTurn(objects[j]))}

NormalizesToEmpty(o) ==
    \/ ~HasStringFields(o)
    \/ IsDialect(o, "session_meta")
    \/ /\ DriftHistogram(o) = "none"
       /\ ~Normalize(o).raises
       /\ Normalize(o).out = <<>>

ReadSucceeded == pc # "start" /\ error # "JSONDecodeError"

ProducesContent(o) ==
    /\ HasStringFields(o)
    /\ ~IsDialect(o, "session_meta")
    /\ DriftHistogram(o) = "none"
    /\ ~Normalize(o).raises
    /\ Normalize(o).out # <<>>

C5_ContentGivesLoglines ==
    (Terminated /\ \E j \in 1..Len(objects) : ProducesContent(objects[j]))
        => (pc = "returned" /\ Loglines # <<>>)

\* C6: every returned logline has a type among user, assistant and system, a
\* role equal to its type and a non-empty content, a non-empty string or a
\* non-empty list of blocks.
NonEmptyContent(c) ==
    \/ c.t = "str" /\ c.s # <<>>
    \/ c.t = "list" /\ c.xs # <<>>

C6_LoglineShape ==
    pc = "returned" =>
        \A i \in 1..Len(Loglines) :
            /\ Loglines[i].type \in {"user", "assistant", "system"}
            /\ Loglines[i].message.role = Loglines[i].type
            /\ NonEmptyContent(Loglines[i].message.content)

\* a return after a record with empty text was dropped, holding a plain
\* string logline and a logline of blocks
C6_Witness ==
    /\ pc = "returned"
    /\ Len(records) < stats.parsed_rollout_lines
    /\ \E i \in 1..Len(Loglines) : Loglines[i].message.content.t = "str"
    /\ \E i \in 1..Len(Loglines) : Loglines[i].message.content.t = "list"
    /\ \E j \in 1..Len(objects) :
          IsEventTurn(objects[j]) /\ ~NonBlankStr(Get(Get(objects[j], "payload"), "message"))

\* C7: normalizing one record never fails: after a successful read the only
\* error parse_rollout_file raises is the empty-result RolloutParseError.
C7_NoRecordError ==
    (pc = "raised" /\ ReadSucceeded) => error = "RolloutParseError"

\* C8: a record whose timestamp or type is not a string adds one to
\* total_lines and to skipped_lines and nothing else: parsed_rollout_lines,
\* the histograms, the metadata, the dedup flag and the loglines stay.
C8_SkippedRecordFrame ==
    [][(pc = "loop" /\ pos <= Len(objects) /\ ~HasStringFields(objects[pos]))
          => /\ stats' = [stats EXCEPT !.total_lines = @ + 1,
                                       !.skipped_lines = @ + 1]
             /\ UNCHANGED <<records, meta, saw_event_messages, pc, error>>]_vars

\* a session_meta record and a user_message record, both without a string
\* timestamp, have been gone through and left no trace
C8_Witness ==
    /\ pc = "loop"
    /\ \E j \in Processed :
          ~HasStringFields(objects[j]) /\ Get(objects[j], "type") = S("session_meta")
    /\ \E j \in Processed :
          ~HasStringFields(objects[j]) /\ PayloadKind(objects[j]) = S("user_message")
    /\ stats.skipped_lines = 2
    /\ meta = JNull /\ records = <<>> /\ ~saw_event_messages

\* C9: in a newline-delimited file every non-blank line that is not valid
\* JSON, or whose JSON value is not a mapping, is counted in
\* stats.skipped_lines.
MalformedLines ==
    {i \in 1..Len(file.lines) :
        \/ file.lines[i].shape = "text"
        \/ file.lines[i].shape = "json" /\ file.lines[i].v.t # "dict"}

C9_MalformedLinesCounted ==
    (pc = "returned" /\ file.suffix = ".jsonl")
        => stats.skipped_lines >= Cardinality(MalformedLines)

\* C10: the system_record block of an unrecognized record carries the raw
\* record unchanged, so its payload is read back from system_record.record.
C10_RecordRoundTrip ==
    pc = "returned" =>
        \A i \in 1..Len(filtered) :
            LET c == filtered[i].logline.message.content IN
            \A b \in 1..(IF c.t = "list" THEN Len(c.xs) ELSE 0) :
                c.xs[b].type = "system_record" =>
                    /\ c.xs[b].record = objects[filtered[i].src]
                    /\ Get(c.xs[b].record, "payload")
                          = Get(objects[filtered[i].src], "payload")

\* a returned system_record block of an event of unknown kind whose payload
\* carries data
C10_Witness ==
    /\ pc = "returned"
    /\ \E i \in 1..Len(Loglines) :
          /\ IsSystemCard(Loglines[i], W("event_msg:mystery_event"))
          /\ Get(Get(Loglines[i].message.content.xs[1].record, "payload"), "data") = JNum(1)

\* C11: a record whose top-level type is session_meta is never emitted as a
\* logline and never counted in a drift histogram, whatever its payload (a
\* mapping or not) and whether or not it is the first one: the step that
\* goes through it appends no logline and leaves the three histograms.
C11_SessionMetaNeverEmitted ==
    [][(pc = "loop" /\ pos <= Len(objects)
            /\ Get(objects[pos], "type") = S("session_meta"))
          => /\ records' = records
             /\ stats'.system_rollout_types = stats.system_rollout_types
             /\ stats'.system_event_types = stats.system_event_types
             /\ stats'.system_response_item_types = stats.system_response_item_types]_vars

\* C12: the session metadata is first-wins and immutable.  As stated: it is
\* built from the first record of type session_meta with a mapping payload,
\* in file order.
SessionMetaTyped ==
    {j \in Processed : /\ Get(objects[j], "type") = S("session_meta")
                       /\ Get(objects[j], "payload").t = "dict"}

First(js) == CHOOSE j \in js : \A k \in js : j <= k

C12_FirstSessionMetaRecord ==
    SessionMetaTyped # {} =>
        meta = SessionMeta(Get(objects[First(SessionMetaTyped)], "payload"))

\* C12 (amended): the metadata is built from the first session_meta record
\* that has a string timestamp and a mapping payload, in file order; no later
\* record changes it; without such a record it is None, while the other
\* records are still parsed.
SessionMetaParsed == {j \in Processed : IsDialect(objects[j], "session_meta")}

C12_FirstWins ==
    meta = IF SessionMetaParsed = {} THEN JNull
           ELSE SessionMeta(Get(objects[First(SessionMetaParsed)], "payload"))

\* two session_meta records with different payloads have been gone through
\* and the metadata is the one of the first
C12_Witness ==
    /\ Cardinality(SessionMetaParsed) = 2
    /\ \E j \in SessionMetaParsed :
          /\ j # First(SessionMetaParsed)
          /\ SessionMeta(Get(objects[j], "payload")) # meta
    /\ meta = SessionMeta(Get(objects[First(SessionMetaParsed)], "payload"))

\* C13: determinism.  Two calls of parse_rollout_file on the same records
\* hand back the same loglines, SessionMeta and ParseStats, or raise the
\* same error; nothing a call leaves behind influences a later call, also
\* with a call on a different session in between.
Outcomes == outcomes \o (IF Terminated THEN <<Outcome>> ELSE <<>>)

C13_Determinism ==
    \A i, j \in 1..Len(Outcomes) :
        Outcomes[i].file = Outcomes[j].file => Outcomes[i] = Outcomes[j]

\* the third call returned what the first returned, loglines removed by the
\* dedup filter and a histogram included, after a call on another session
\* that set the metadata, a histogram and the dedup flag
C13_Witness ==
    /\ run = 3
    /\ pc = "returned"
    /\ outcomes[1] = Outcome
    /\ outcomes[2].file # file
    /\ outcomes[2].result = "returned"
    /\ outcomes[2].meta # JNull
    /\ meta = JNull
    /\ Len(Loglines) < Len(records)
    /\ DOMAIN stats.system_event_types # {}
    /\ stats # outcomes[2].stats

\* C14: a record of a recognized dialect and kind (an event_msg of kind
\* user_message, agent_message, context_compacted, turn_aborted,
\* agent_reasoning, agent_reasoning_raw_content or token_count, a
\* response_item of a recognized kind, a compacted or turn_context record
\* with a mapping payload) never changes a drift histogram, also when it is
\* dropped for empty content.
Recognized(o) ==
    \/ IsDialect(o, "event_msg") /\ PayloadKind(o) \in EventKinds
    \/ IsDialect(o, "response_item") /\ PayloadKind(o) \in ResponseItemKinds
    \/ IsDialect(o, "compacted")
    \/ IsDialect(o, "turn_context")

C14_RecognizedLeavesHistograms ==
    [][(pc = "loop" /\ pos <= Len(objects) /\ Recognized(objects[pos]))
          => /\ stats'.system_rollout_types = stats.system_rollout_types
             /\ stats'.system_event_types = stats.system_event_types
             /\ stats'.system_response_item_types = stats.system_response_item_types]_vars

\* a recognized record dropped for empty content and a recognized record
\* that gave a logline have been gone through after an unrecognized one,
\* and the histograms hold the unrecognized one only
C14_Witness ==
    /\ pc = "loop"
    /\ pos = 4
    /\ DriftHistogram(objects[1]) = "event"
    /\ Recognized(objects[2]) /\ From(records, 2) = {}
    /\ Recognized(objects[3]) /\ From(records, 3) # {}
    /\ stats.system_event_types = _bump(EmptyCounter, DriftKey(objects[1]))
    /\ stats.system_rollout_types = EmptyCounter
    /\ stats.system_response_item_types = EmptyCounter

\* C15: for an event_msg of kind user_message whose message is a string that
\* is not empty after trimming, the emitted user logline has the trimmed
\* message as its content; an empty, whitespace-only or non-string message
\* gives no logline.
IsUserMessage(o) == IsDialect(o, "event_msg") /\ PayloadKind(o) = S("user_message")

C15_UserMessageTrimmed ==
    \A j \in Processed :
        IsUserMessage(objects[j]) =>
            LET msg == Get(Get(objects[j], "payload"), "message") IN
            IF NonBlankStr(msg)
            THEN /\ Cardinality(From(records, j)) = 1
                 /\ \A k \in From(records, j) :
                       /\ records[k].logline.type = "user"
                       /\ records[k].logline.message.content = JStr(Strip(msg.s))
            ELSE From(records, j) = {}

\* C16: a response_item of kind function_call gives exactly one logline
\* with one tool_use block whose input is the JSON-decoded value of
\* arguments whenever arguments is a string holding valid JSON, whatever
\* the JSON text, and {"arguments": arguments} otherwise; its name is the
\* payload's name or "function_call", its id the call_id or "".
IsFunctionCall(o) ==
    IsDialect(o, "response_item") /\ PayloadKind(o) = S("function_call")

C16_FunctionCallInput ==
    \A j \in Processed :
        IsFunctionCall(objects[j]) =>
            LET payload == Get(objects[j], "payload")
                arguments == Or(Get(payload, "arguments"), EmptyStr)
                decoded == Loads(arguments.s)
            IN
            /\ Cardinality(From(records, j)) = 1
            /\ \A k \in From(records, j) :
                  records[k].logline.message.content =
                      JList(<<ToolUseBlock(
                                Or(Get(payload, "name"), S("function_call")),
                                IF IsStr(arguments) /\ decoded.ok THEN decoded.v
                                ELSE JDict([arguments |-> arguments]),
                                Or(Get(payload, "call_id"), EmptyStr))>>)

\* C17: the input of every tool_use block of every emitted logline
\* (function_call, custom_tool_call, local_shell_call, web_search_call,
\* token_count, turn_context) is a mapping, whatever arguments or input the
\* record carries.
C17_ToolUseInputIsMapping ==
    \A k \in 1..Len(records) :
        LET c == records[k].logline.message.content IN
        \A b \in 1..(IF c.t = "list" THEN Len(c.xs) ELSE 0) :
            c.xs[b].type = "tool_use" => IsDict(c.xs[b].input)

\* C18: conversation grouping partitions its input.  For a sequence of n > 0
\* items the groups are non-empty spans [start, end] in order, the first
\* starting at 0, the last ending at n - 1, each start one after the
\* previous end; every group but the first starts at a prompt (a user item
\* whose content is a string that is not empty after trimming) and has that
\* item's trimmed text as its prompt; a prompt stands nowhere but at the
\* start of a group.
Built == gpc \in {"render", "returned", "raised"}

Items == transcript_item_messages

IsPromptItem(item) ==
    /\ item[1] = "user"
    /\ ItemContent(item).t = "str"
    /\ Strip(ItemContent(item).s) # <<>>

C18_GroupsPartition ==
    (Built /\ Items # <<>>) =>
        /\ groups # <<>>
        /\ groups[1].start = 0
        /\ groups[Len(groups)].end = Len(Items) - 1
        /\ \A k \in 1..Len(groups) :
              /\ groups[k].start <= groups[k].end
              /\ groups[k].messages = SubSeq(Items, groups[k].start + 1, groups[k].end + 1)
              /\ k > 1 =>
                    /\ groups[k].start = groups[k - 1].end + 1
                    /\ IsPromptItem(Items[groups[k].start + 1])
                    /\ groups[k].prompt =
                          JStr(Strip(ItemContent(Items[groups[k].start + 1]).s))
        /\ \A n \in 1..Len(Items) :
              IsPromptItem(Items[n]) => \E k \in 1..Len(groups) : groups[k].start = n - 1

\* three groups: items before the first prompt, a prompt with surrounding
\* whitespace followed by user items that are no prompts, and a last prompt
C18_Witness ==
    /\ gpc = "returned"
    /\ Len(groups) = 3
    /\ groups[1].prompt = JNull
    /\ groups[2].prompt = S("hi")
    /\ groups[2].end > groups[2].start
    /\ Items[groups[2].end + 1][1] = "user"
    /\ groups[3].end = Len(Items) - 1

\* C19: a non-empty session without a prompt gives exactly one group, which
\* spans the whole sequence and has prompt None; and a group has prompt None
\* only if it is the first group and the sequence does not start with a
\* prompt.
C19_SessionStartGroup ==
    (Built /\ Items # <<>>) =>
        /\ (\A n \in 1..Len(Items) : ~IsPromptItem(Items[n]))
              => groups = <<Group(0, Len(Items) - 1, JNull, Items)>>
        /\ \A k \in 1..Len(groups) :
              groups[k].prompt = JNull => (k = 1 /\ ~IsPromptItem(Items[1]))

\* one group without prompt over user items whose content is only
\* whitespace, a list of blocks, and text that does not decode
C19_Witness ==
    /\ gpc = "returned"
    /\ Len(Items) = 3
    /\ \A n \in 1..3 : Items[n][1] = "user"
    /\ ItemContent(Items[1]) = JStr(W("  "))
    /\ ItemContent(Items[2]).t = "list"
    /\ ~Loads(Items[3][2]).ok
    /\ groups = <<Group(0, 2, JNull, Items)>>

\* C20: the duration of a group is total and optional: for every pair of
\* start and end timestamp strings computing it never raises; it is None
\* when an endpoint fails to parse, and the difference end minus start in
\* whole milliseconds otherwise.
Endpoint(n) == transcript_item_timestamps[n + 1]

Parses(ts) == IsStr(ts) /\ _parse_rfc3339(ts.s) # JNull

\* milliseconds after 2025-01-01T00:00:00 UTC (on the wall clock for a value
\* without zone)
Instant(ts) ==
    LET dt == _parse_rfc3339(ts.s) IN
    IF dt.utcoffset = JNull THEN dt.wall ELSE dt.wall - dt.utcoffset.n

C20_DurationTotal ==
    /\ gpc # "raised"
    /\ \A k \in 1..Len(rendered_groups) :
          LET g == rendered_groups[k] IN
          g.duration_ms =
              IF Parses(Endpoint(g.start)) /\ Parses(Endpoint(g.end))
              THEN JNum(Instant(Endpoint(g.end)) - Instant(Endpoint(g.start)))
              ELSE JNull

\* C21: the viewer renders the drift notice exactly when the counts of the
\* three drift histograms sum to more than zero: a session of recognized
\* records only renders no notice, and a session with an unrecognized
\* rollout type, event kind or response-item kind renders a notice that
\* names that kind.
RECURSIVE Total(_)
Total(counter) ==
    IF DOMAIN counter = {} THEN 0
    ELSE LET k == CHOOSE x \in DOMAIN counter : TRUE
         IN counter[k] + Total([x \in DOMAIN counter \ {k} |-> counter[x]])

Rendered == warnings_html # JNull

HasNotice == warnings_html # EmptyStr

NoticeJson(hist) ==
    CASE hist = "rollout" -> warnings_html.rollout_json
      [] hist = "event" -> warnings_html.event_json
      [] hist = "response" -> warnings_html.response_json

\* the text holds the kind as a quoted key
Names(json, kind) ==
    \E n \in 1..Len(json.s) : <<json.s[n]>> = Cat(Cat(W("\""), kind), W("\":"))

C21_DriftNotice ==
    Rendered =>
        /\ HasNotice <=> (Total(stats.system_rollout_types)
                            + Total(stats.system_event_types)
                            + Total(stats.system_response_item_types) > 0)
        /\ (\A j \in 1..Len(objects) : DriftHistogram(objects[j]) = "none") => ~HasNotice
        /\ \A j \in 1..Len(objects) :
              DriftHistogram(objects[j]) # "none" =>
                  /\ HasNotice
                  /\ Names(NoticeJson(DriftHistogram(objects[j])), DriftKey(objects[j]))

\* a notice for a session whose only drift is two response items of an
\* unknown kind, next to a recognized record
C21_Witness ==
    /\ Rendered
    /\ HasNotice
    /\ warnings_html.system_total = 2
    /\ warnings_html.rollout_json = EmptyStr
    /\ warnings_html.event_json = EmptyStr
    /\ Names(warnings_html.response_json, W("mystery_item"))
    /\ Len(objects) = 3

-----------------------------------------------------------------------------
(* Properties of import_rollout_url                                         *)

ImportTerminated == ipc \in {"returned", "raised"}

\* the first max_records mappings of a download, in the order of the file
ValidRecords(body) ==
    LET objs == LineObjects(body.lines)
    IN SubSeq(objs, 1, IF Len(objs) < max_records THEN Len(objs) ELSE max_records)

\* no session_meta record with a mapping payload among them
LacksSessionMeta(body) ==
    \A k \in 1..Len(ValidRecords(body)) :
        ~(Get(ValidRecords(body)[k], "type") = S("session_meta")
            /\ IsDict(Get(ValidRecords(body)[k], "payload")))

MissingSessionMeta ==
    "Downloaded file does not look like a Codex rollout (missing session_meta)."

\* C22: a downloaded text with no session_meta record with a mapping payload
\* among its first 50 valid records is rejected: the step that inspects it
\* raises the error that mentions the missing session_meta, leaves the
\* directories and files of the Codex home as they were, and removes the
\* temporary file.
C22_RejectsWithoutSessionMeta ==
    [][(ipc = "downloaded" /\ tmp_file.body.utf8 /\ LacksSessionMeta(tmp_file.body))
          => /\ ipc' = "raised"
             /\ import_error' = MissingSessionMeta
             /\ home_dirs' = home_dirs
             /\ home_files' = home_files
             /\ tmp_file' = JNull]_vars

\* rejected: a download whose session_meta record is the 51st valid record
C22_Witness ==
    /\ ipc = "raised"
    /\ import_error = MissingSessionMeta
    /\ response.kind = "ok"
    /\ Len(LineObjects(response.body.lines)) = max_records + 1
    /\ IsSessionMeta(LineObjects(response.body.lines)[max_records + 1])
    /\ tmp_file = JNull

\* a name of the form rollout-<timestamp>-<uuid>.jsonl
HasRolloutForm(name) ==
    /\ Len(name) = 5
    /\ name[1] = "rollout-"
    /\ name[2] # ""
    /\ name[3] = "-"
    /\ name[4] \in DOMAIN UuidTable
    /\ name[5] = ".jsonl"

\* C23: once the destination is chosen, a URL whose last path segment has
\* the form rollout-<timestamp>-<uuid>.jsonl gives the stored file that very
\* name, and get_session_id_from_filename returns the uuid of the name; any
\* other URL gives the name rollout-<session timestamp>-<session id>.jsonl,
\* the timestamp written as YYYY-MM-DDTHH-MM-SS.
C23_NamedAfterUrl ==
    ipc \in {"named", "returned"} =>
        IF HasRolloutForm(url.name)
        THEN /\ dest.name = url.name
             /\ get_session_id_from_filename(dest) = S(url.name[4])
        ELSE /\ dest.name = RolloutName(dest.name[2], session_id.s[1], ".jsonl")
             /\ remote_parse_rfc3339(import_meta.timestamp) # JNull
                  => dest.name[2] = StrfTime(remote_parse_rfc3339(import_meta.timestamp))

-----------------------------------------------------------------------------
(* Properties of group_units_by_prompt                                      *)

RECURSIVE Flatten(_)
Flatten(gs) == IF gs = <<>> THEN <<>> ELSE Head(gs).units \o Flatten(Tail(gs))

\* C24: the groups returned partition the units: their units, concatenated
\* in order, are the input; no group is empty; a group with a prompt has
\* that prompt, a "user" unit, as its first unit; no unit after the first of
\* a group is a "user" unit; only the first group can be without a prompt.
C24_GroupsPartitionUnits ==
    upc = "returned" =>
        /\ Flatten(unit_groups) = units
        /\ \A g \in 1..Len(unit_groups) :
              /\ unit_groups[g].units # <<>>
              /\ unit_groups[g].prompt # JNull =>
                    /\ unit_groups[g].units[1] = unit_groups[g].prompt
                    /\ unit_groups[g].prompt.kind = "user"
              /\ \A k \in 2..Len(unit_groups[g].units) :
                    unit_groups[g].units[k].kind # "user"
              /\ unit_groups[g].prompt = JNull => g = 1

\* returned: a group without a prompt, then two groups that start with their
\* prompt
C24_Witness ==
    /\ upc = "returned"
    /\ Len(unit_groups) = 3
    /\ unit_groups[1].prompt = JNull
    /\ unit_groups[2].prompt = MessageUnit("user", "Hello")
    /\ Len(unit_groups[2].units) = 2
    /\ unit_groups[3].prompt = MessageUnit("user", "again")

-----------------------------------------------------------------------------
(* Properties of the dedup filter and of the counters                       *)

\* a is b with some entries left out, the others in the order of b
RECURSIVE IsSubsequence(_, _)
IsSubsequence(a, b) ==
    IF a = <<>> THEN TRUE
    ELSE IF b = <<>> THEN FALSE
    ELSE IF Head(a) = Head(b) THEN IsSubsequence(Tail(a), Tail(b))
    ELSE IsSubsequence(a, Tail(b))

\* the logline carries a block of one of the types
HasBlock(l, types) ==
    /\ l.message.content.t = "list"
    /\ \E b \in 1..Len(l.message.content.xs) : l.message.content.xs[b].type \in types

\* a logline the filter may not remove
Protected(r) ==
    \/ HasBlock(r.logline, {"tool_use", "tool_result", "thinking", "system_record"})
    \/ IsDialect(objects[r.src], "event_msg")

\* C25: at the return the loglines returned are the loglines appended with
\* some left out: same order, same contents, each timestamp the timestamp of
\* the record it came from; a logline left out came from a response_item
\* record of kind message; every logline with a tool_use, tool_result,
\* thinking or system_record block and every logline of an event_msg record
\* is returned.
C25_DedupOnlyFilters ==
    pc = "returned" =>
        /\ IsSubsequence(filtered, records)
        /\ \A i \in 1..Len(filtered) :
              filtered[i].logline.timestamp = Get(objects[filtered[i].src], "timestamp")
        /\ \A k \in 1..Len(records) :
              /\ ~Returned(k) => IsResponseMessage(objects[records[k].src])
              /\ Protected(records[k]) => Returned(k)

\* returned: a mirror was removed, the card of an unrecognized record and
\* the text of an event message kept
C25_Witness ==
    /\ pc = "returned"
    /\ saw_event_messages
    /\ \E k \in 1..Len(records) : ~Returned(k)
    /\ \E k \in 1..Len(records) :
          HasBlock(records[k].logline, {"system_record"}) /\ Returned(k)
    /\ \E k \in 1..Len(records) :
          IsEventTurn(objects[records[k].src]) /\ Returned(k)

-----------------------------------------------------------------------------
(* Properties of import_rollout_url: the destination and the temporary file *)

SessionExists == "Session already exists"

\* C26: no step of an import removes a file of the Codex home, and a step
\* changes the content of one only if it is the destination, overwrite is
\* set and the new content is the download; when the destination exists and
\* overwrite is not set the import raises and the files are as they were.
C26_NeverSilentlyReplaces ==
    [][/\ \A p \in DOMAIN home_files :
             /\ p \in DOMAIN home_files'
             /\ home_files'[p] # home_files[p] =>
                   /\ overwrite
                   /\ p = dest
                   /\ home_files'[p] = response.body
       /\ (ipc = "named" /\ dest \in DOMAIN home_files /\ ~overwrite) =>
             /\ ipc' = "raised"
             /\ import_error' = SessionExists
             /\ home_files' = home_files]_vars

\* refused: the session stored before the import is still there, although
\* the download differs from it
C26_Witness ==
    /\ ipc = "raised"
    /\ import_error = SessionExists
    /\ ~overwrite
    /\ dest \in DOMAIN home_files
    /\ home_files[dest] = Old
    /\ response.body # Old

\* C27: however an import ends (returned, or raised by the URL check, the
\* download, the inspection of the head, the existing destination or the
\* move) the temporary file does not exist; when it returned, the
\* destination holds the bytes downloaded.
C27_TempFileRemoved ==
    ImportTerminated =>
        /\ tmp_file = JNull
        /\ ipc = "returned" =>
              /\ dest \in DOMAIN home_files
              /\ home_files[dest] = response.body

\* ended by a move that failed with an error other than EXDEV, after the
\* download was complete and named
C27_Witness ==
    /\ ipc = "raised"
    /\ import_error = "OSError"
    /\ dest # JNull
    /\ dest \notin DOMAIN home_files
    /\ tmp_file = JNull

Conserved(st) == st.total_lines = st.parsed_rollout_lines + st.skipped_lines

Counters == {"total_lines", "parsed_rollout_lines", "skipped_lines", "emitted_loglines"}

\* C28: before and after every step of parse_rollout_file total_lines is
\* parsed_rollout_lines plus skipped_lines, the loglines appended and
\* emitted_loglines are no more than parsed_rollout_lines, and none of the
\* four counters is negative or decreases.
C28_CountersConserved ==
    [][/\ Conserved(stats) /\ Conserved(stats')
       /\ Len(records') <= stats'.parsed_rollout_lines
       /\ stats'.emitted_loglines <= stats'.parsed_rollout_lines
       /\ \A c \in Counters : 0 <= stats[c] /\ stats[c] <= stats'[c]]_vars

\* returned: one record skipped, one parsed and emitted
C28_Witness ==
    /\ pc = "returned"
    /\ stats.skipped_lines = 1
    /\ stats.parsed_rollout_lines = 1
    /\ stats.emitted_loglines = 1
    /\ stats.total_lines = 2

DriftPrefix(hist) ==
    CASE hist = "rollout" -> W("rollout:")
      [] hist = "event" -> W("event_msg:")
      [] hist = "response" -> W("response_item:")

\* the returned loglines that carry a system_record block
Cards == {i \in 1..Len(filtered) : HasBlock(filtered[i].logline, {"system_record"})}

\* those labelled with the prefix of the histogram and the key
Labelled(hist, key) ==
    {i \in Cards :
        filtered[i].logline.message.content.xs[1].label = JStr(Cat(DriftPrefix(hist), key))}

\* C29: at the return the loglines returned with a system_record block are
\* as many as the three histograms count together; for each histogram and
\* each of its keys, the loglines labelled with its prefix and that key are
\* as many as the histogram counts under the key, and no such logline has
\* another label; the filter removes no logline with a system_record block.
C29_DriftAccounting ==
    pc = "returned" =>
        /\ Cardinality(Cards) = Total(stats.system_rollout_types)
                                  + Total(stats.system_event_types)
                                  + Total(stats.system_response_item_types)
        /\ \A hist \in {"rollout", "event", "response"} :
              \A key \in DOMAIN Histogram(hist) :
                  Cardinality(Labelled(hist, key)) = Histogram(hist)[key]
        /\ \A i \in Cards :
              \E hist \in {"rollout", "event", "response"} :
                  \E key \in DOMAIN Histogram(hist) : i \in Labelled(hist, key)
        /\ \A k \in 1..Len(records) :
              HasBlock(records[k].logline, {"system_record"}) => Returned(k)

\* returned: two cards under one key of the event histogram, after a
\* filter that removed a mirror
C29_Witness ==
    /\ pc = "returned"
    /\ \E k \in 1..Len(records) : ~Returned(k)
    /\ \E key \in DOMAIN stats.system_event_types :
          /\ stats.system_event_types[key] = 2
          /\ Cardinality(Labelled("event", key)) = 2

-----------------------------------------------------------------------------
\* C30: when parse_rollout_file returns for a file of at most 50 record
\* mappings, the metadata it returns is what extract_session_meta_from_head
\* returns for the same mappings: the same SessionMeta, or None for both.
C30_ExtractorsAgree ==
    (pc = "returned" /\ Len(objects) <= max_records) =>
        meta = extract_session_meta_from_head(objects)

====
